---- MODULE Spec2Model ----
(***************************************************************************)
(* Model of the chunked tile-map viewer (src/load_map.py): the LRUCache    *)
(* class, the tileset registry with get_tile_image, the chunk compositor   *)
(* and the main frame loop; and of the two grid searches, ucs_algorithm    *)
(* (src/main.py) and find_path (src/pathfinding.py).                       *)
(*                                                                         *)
(* Six specifications share the variables:                                 *)
(*   SpecLRU      one LRUCache object driven by arbitrary get/put/clear    *)
(*   SpecResolve  get_tile_image applied to bounded tile references        *)
(*   Spec         the program: map loading followed by the frame loop      *)
(*   SpecZoom     long sequences of zoom keys, with a render step          *)
(*   SpecUCS      one call of ucs_algorithm on a bounded grid              *)
(*   SpecFindPath one call of find_path on a bounded grid                  *)
(***************************************************************************)
EXTENDS Integers, Sequences, FiniteSets, TLC

(***************************************************************************)
(* Bounds of the model                                                     *)
(***************************************************************************)
\* largest capacity of the LRUCache object under test in SpecLRU
MaxCapacity == 3
\* number of get calls issued in one SpecLRU behaviour (caps hits + misses)
MaxGets == 4

\* keys and values used to drive the LRUCache object under test
Keys == {"k1", "k2", "k3", "k4"}
Values == {"v1", "v2"}

\* Python's None as the result of an optional value: the empty tuple; a
\* present value v is the one-element tuple <<v>>.
None == <<>>
Some(v) == <<v>>

VARIABLES
    lru,        \* SpecLRU: the LRUCache object under test
    lastOp,     \* SpecLRU: the call just made on lru and what it returned
    recency     \* SpecLRU: history of the calls: the keys ever stored or hit,
                \*          ordered by their last put or hitting get, oldest first

VARIABLES
    root,            \* the parsed map document (ET.parse(tmx_path).getroot())
    tileset_images,  \* dict firstgid -> registered tileset
    fallback_tiles,  \* dict firstgid -> that tileset's fallback tile
    default_fallback,\* the global (magenta) fallback tile
    gid_arg,         \* SpecResolve: the argument of the last get_tile_image call
    resolved         \* SpecResolve: what that call returned

VARIABLES
    pc,             \* where the program is: "load", "loop" (top of the while),
                    \* "events", "update", "render", "flip", "cleanup", "exited"
    exit_status,    \* the status the process exited with, -1 while it runs
    screen_info,    \* pygame.display.Info(): [current_w, current_h]
    WIDTH, HEIGHT,  \* size of the drawing surface, in pixels
    FULLSCREEN, SHOW_DETAILS,
    chunks,         \* the list of chunk_info records built by the loader
    camera_x, camera_y, \* pan offset, in units of 1/UNIT pixel
    zoom,           \* the zoom factor: the index of its double in ZoomTable
    tile_cache, chunk_cache,  \* the two LRUCache objects
    running,
    event_list,     \* the events of this frame (pygame.event.get())
    ev_i,           \* position of the for loop in event_list
    details_button, \* ToggleButton: [active, hover, clicked]
    perf_monitor,   \* PerformanceMonitor: [visible_tiles, total_tiles]
    screen,         \* what has been blitted on the screen surface since the fill
    display,        \* what the last pygame.display.flip() showed
    calls,          \* the calls made by the render step of this frame
    frames,         \* number of frames started
    inputs          \* number of events and held keys consumed so far

VARIABLES
    ucs,        \* SpecUCS: the frame of one ucs_algorithm call (src/main.py)
    fp,         \* SpecFindPath: the frame of one find_path call
                \*               (src/pathfinding.py)
    expanded    \* SpecFindPath: history of the call: the cells whose
                \*               neighbours were explored, in order

lruVars == <<lru, lastOp, recency>>
registryVars == <<root, tileset_images, fallback_tiles, default_fallback>>
resolveVars == <<gid_arg, resolved>>
windowVars == <<screen_info, WIDTH, HEIGHT, FULLSCREEN>>
cameraVars == <<camera_x, camera_y, zoom>>
cacheVars == <<tile_cache, chunk_cache>>
eventVars == <<event_list, ev_i>>
outputVars == <<screen, display, calls, perf_monitor>>
frameVars == <<pc, exit_status, windowVars, SHOW_DETAILS, chunks, cameraVars,
               cacheVars, running, eventVars, details_button, outputVars,
               frames, inputs>>
searchVars == <<ucs, fp, expanded>>
vars == <<lruVars, registryVars, resolveVars, frameVars, searchVars>>

(***************************************************************************)
(* Sequence helpers                                                        *)
(***************************************************************************)
Range(s) == {s[i] : i \in 1..Len(s)}

Max(a, b) == IF a >= b THEN a ELSE b
Min(a, b) == IF a <= b THEN a ELSE b

\* the sequence s without the elements that satisfy key = k
RemoveKey(s, k) == SelectSeq(s, LAMBDA e : e.key # k)

\* the sequence of plain elements s without x
Without(s, x) == SelectSeq(s, LAMBDA e : e # x)

(***************************************************************************)
(* class LRUCache (src/load_map.py:35-70).  The OrderedDict is a sequence  *)
(* of entries [key, value], first = oldest (the end popitem(last=False)    *)
(* removes), last = the end move_to_end moves a key to.                    *)
(***************************************************************************)
\* LRUCache.__init__
NewLRUCache(capacity) ==
    [cache |-> <<>>, capacity |-> capacity, hits |-> 0, misses |-> 0]

\* key in self.cache
InCache(c, key) == \E i \in 1..Len(c.cache) : c.cache[i].key = key

\* self.cache[key]
CacheValue(c, key) ==
    (CHOOSE e \in Range(c.cache) : e.key = key).value

\* the keys of self.cache in OrderedDict order
CacheKeys(c) == [i \in 1..Len(c.cache) |-> c.cache[i].key]

\* OrderedDict.move_to_end(key)
MoveToEnd(od, key) ==
    Append(RemoveKey(od, key), CHOOSE e \in Range(od) : e.key = key)

\* OrderedDict.__setitem__: an existing key keeps its position
SetItem(od, key, value) ==
    IF \E i \in 1..Len(od) : od[i].key = key
    THEN [i \in 1..Len(od) |->
             IF od[i].key = key THEN [key |-> key, value |-> value] ELSE od[i]]
    ELSE Append(od, [key |-> key, value |-> value])

\* OrderedDict.popitem(last=False)
PopFirst(od) == Tail(od)

\* LRUCache.get: the object afterwards and the value returned
LRUGetNoCount(c, key) ==
    IF InCache(c, key)
    THEN [self |-> [c EXCEPT !.cache = MoveToEnd(c.cache, key)],
          ret |-> Some(CacheValue(c, key))]
    ELSE [self |-> c, ret |-> None]

LRUGetNoMove(c, key) ==
    IF InCache(c, key)
    THEN [self |-> [c EXCEPT !.hits = c.hits + 1],
          ret |-> Some(CacheValue(c, key))]
    ELSE [self |-> [c EXCEPT !.misses = c.misses + 1], ret |-> None]

LRUGetPopsOnHit(c, key) ==
    IF InCache(c, key)
    THEN [self |-> [c EXCEPT !.cache = RemoveKey(c.cache, key),
                             !.hits = c.hits + 1],
          ret |-> Some(CacheValue(c, key))]
    ELSE [self |-> [c EXCEPT !.misses = c.misses + 1], ret |-> None]

LRUGet(c, key) ==
    IF InCache(c, key)
    THEN [self |-> [c EXCEPT !.cache = MoveToEnd(c.cache, key),
                             !.hits = c.hits + 1],
          ret |-> Some(CacheValue(c, key))]
    ELSE [self |-> [c EXCEPT !.misses = c.misses + 1], ret |-> None]

\* LRUCache.put: the object afterwards
LRUPutPopLast(c, key, value) ==
    IF InCache(c, key)
    THEN [c EXCEPT !.cache = SetItem(MoveToEnd(c.cache, key), key, value)]
    ELSE LET kept == IF Len(c.cache) >= c.capacity
                     THEN SubSeq(c.cache, 1, Len(c.cache) - 1)
                     ELSE c.cache
         IN  [c EXCEPT !.cache = SetItem(kept, key, value)]

LRUPutOffByOne(c, key, value) ==
    IF InCache(c, key)
    THEN [c EXCEPT !.cache = SetItem(MoveToEnd(c.cache, key), key, value)]
    ELSE LET kept == IF Len(c.cache) > c.capacity
                     THEN PopFirst(c.cache)
                     ELSE c.cache
         IN  [c EXCEPT !.cache = SetItem(kept, key, value)]

LRUPut(c, key, value) ==
    IF InCache(c, key)
    THEN [c EXCEPT !.cache = SetItem(MoveToEnd(c.cache, key), key, value)]
    ELSE LET kept == IF Len(c.cache) >= c.capacity
                     THEN PopFirst(c.cache)
                     ELSE c.cache
         IN  [c EXCEPT !.cache = SetItem(kept, key, value)]

\* LRUCache.clear
LRUClearResetsCounters(c) ==
    [c EXCEPT !.cache = <<>>, !.hits = 0, !.misses = 0]

LRUClear(c) == [c EXCEPT !.cache = <<>>]

\* LRUCache.__len__
LRULen(c) == Len(c.cache)

\* LRUCache.get_all_values
LRUGetAllValues(c) == [i \in 1..Len(c.cache) |-> c.cache[i].value]

\* lastOp before any call is made
NoOp == [op |-> "init", key |-> "", present |-> FALSE, ret |-> None]

(***************************************************************************)
(* Tile references (spec 6, src/load_map.py:304-310).  A cell holds a      *)
(* 32-bit value; it is kept as [hi, lo] with value = hi * 2^29 + lo, hi    *)
(* the three flag bits (bit 31, 30, 29) and lo the low 29 bits.            *)
(***************************************************************************)
TwoTo29 == 536870912

\* the three flags, in units of 2^29
FLIPPED_HORIZONTALLY_FLAG == 4
FLIPPED_VERTICALLY_FLAG == 2
FLIPPED_DIAGONALLY_FLAG == 1

Gid(hi, lo) == [hi |-> hi, lo |-> lo]

\* gid == 0 and gid > 0 on the 32-bit value
GidIsZero(gid) == gid.hi = 0 /\ gid.lo = 0
GidPositive(gid) == gid.hi > 0 \/ gid.lo > 0

\* bit b (4, 2 or 1) of the flag part
FlagBit(hi, b) == (hi \div b) % 2

\* gid & ~(H | V | D): every flag bit that is set is cleared
RealGidKeepsDiagonal(gid) ==
    (gid.hi - FLIPPED_HORIZONTALLY_FLAG * FlagBit(gid.hi, FLIPPED_HORIZONTALLY_FLAG)
            - FLIPPED_VERTICALLY_FLAG * FlagBit(gid.hi, FLIPPED_VERTICALLY_FLAG))
        * TwoTo29 + gid.lo

RealGid(gid) ==
    (gid.hi - FLIPPED_HORIZONTALLY_FLAG * FlagBit(gid.hi, FLIPPED_HORIZONTALLY_FLAG)
            - FLIPPED_VERTICALLY_FLAG * FlagBit(gid.hi, FLIPPED_VERTICALLY_FLAG)
            - FLIPPED_DIAGONALLY_FLAG * FlagBit(gid.hi, FLIPPED_DIAGONALLY_FLAG))
        * TwoTo29 + gid.lo

(***************************************************************************)
(* Images.  Every surface is a record that says how it was made.           *)
(***************************************************************************)
\* what get_tile_image returns for gid == 0
NoImage == [kind |-> "None", id |-> 0, x |-> 0, y |-> 0, w |-> 0, h |-> 0]

\* create_fallback_tile(width, height, ...) for the tileset at index i of the
\* document (its colour is derived from i), or for the map (id = -1, magenta)
create_fallback_tile(width, height, i) ==
    [kind |-> IF i < 0 THEN "default_fallback" ELSE "fallback_tile",
     id |-> i, x |-> 0, y |-> 0, w |-> width, h |-> height]

\* pygame.image.load of the atlas of the tileset at index i
LoadedImage(i, t) ==
    [kind |-> "atlas", id |-> i, x |-> 0, y |-> 0, w |-> t.image_w, h |-> t.image_h]

\* image.subsurface(rect)
Subsurface(image, x, y, w, h) ==
    [kind |-> "subsurface", id |-> image.id, x |-> x, y |-> y, w |-> w, h |-> h]

(***************************************************************************)
(* Tileset loading (src/load_map.py:217-297)                               *)
(***************************************************************************)
\* dict[key] = value
DictSet(dict, key, value) ==
    [k \in (DOMAIN dict) \cup {key} |-> IF k = key THEN value ELSE dict[k]]

\* fallback_tiles after the first n tilesets of the document
RECURSIVE LoadFallbackTiles(_, _)
LoadFallbackTiles(tilesets, n) ==
    IF n = 0 THEN <<>>
    ELSE LET t == tilesets[n]
         IN  DictSet(LoadFallbackTiles(tilesets, n - 1), t.firstgid,
                     create_fallback_tile(t.tilewidth, t.tileheight, n - 1))

\* the entry registered for the tileset at index n - 1: the loaded atlas, or
\* the dummy entry with the fallback tile when no image file could be loaded
TilesetEntryUnflagged(tilesets, n) ==
    LET t == tilesets[n]
    IN  IF t.loadable
        THEN [image |-> LoadedImage(n - 1, t),
              columns |-> t.columns, tilecount |-> t.tilecount,
              tilewidth |-> t.tilewidth, tileheight |-> t.tileheight,
              is_fallback |-> FALSE]
        ELSE [image |-> create_fallback_tile(t.tilewidth, t.tileheight, n - 1),
              columns |-> 1, tilecount |-> 1,
              tilewidth |-> t.tilewidth, tileheight |-> t.tileheight,
              is_fallback |-> FALSE]

TilesetEntry(tilesets, n) ==
    LET t == tilesets[n]
    IN  IF t.loadable
        THEN [image |-> LoadedImage(n - 1, t),
              columns |-> t.columns, tilecount |-> t.tilecount,
              tilewidth |-> t.tilewidth, tileheight |-> t.tileheight,
              is_fallback |-> FALSE]
        ELSE [image |-> create_fallback_tile(t.tilewidth, t.tileheight, n - 1),
              columns |-> 1, tilecount |-> 1,
              tilewidth |-> t.tilewidth, tileheight |-> t.tileheight,
              is_fallback |-> TRUE]

\* tileset_images after the first n tilesets of the document: a tileset
\* without an <image> element registers nothing
RECURSIVE LoadTilesetImages(_, _)
LoadTilesetImages(tilesets, n) ==
    IF n = 0 THEN <<>>
    ELSE LET t == tilesets[n]
             before == LoadTilesetImages(tilesets, n - 1)
         IN  IF t.has_image
             THEN DictSet(before, t.firstgid, TilesetEntry(tilesets, n))
             ELSE before

(***************************************************************************)
(* get_tile_image (src/load_map.py:300-357)                                *)
(***************************************************************************)
SetMax(S) == CHOOSE m \in S : \A x \in S : x <= m

\* sorted(keys, reverse=True)
RECURSIVE SortedReverse(_)
SortedReverse(S) ==
    IF S = {} THEN <<>>
    ELSE <<SetMax(S)>> \o SortedReverse(S \ {SetMax(S)})

\* the for loop over the sorted first gids: the first one <= real_gid, else 0
RECURSIVE FindTilesetGid(_, _)
FindTilesetGid(first_gids, real_gid) ==
    IF first_gids = <<>> THEN 0
    ELSE IF real_gid >= Head(first_gids) THEN Head(first_gids)
         ELSE FindTilesetGid(Tail(first_gids), real_gid)

\* fallback_tiles.get(tileset_gid, default_fallback)
FallbackForGlobal(tileset_gid) == default_fallback

FallbackFor(tileset_gid) ==
    IF tileset_gid \in DOMAIN fallback_tiles THEN fallback_tiles[tileset_gid]
    ELSE default_fallback

Returned(image, tileset_gid) ==
    [ret |-> image, exc |-> "", tileset_gid |-> tileset_gid]
Raised(exc, tileset_gid) ==
    [ret |-> NoImage, exc |-> exc, tileset_gid |-> tileset_gid]

\* the part of get_tile_image after the tileset is found (lines 322-357)
TileOfTilesetTransposed(real_gid, tileset_gid) ==
    LET tileset == tileset_images[tileset_gid]
        local_id == real_gid - tileset_gid
        columns == tileset.columns
        tile_width == tileset.tilewidth
        tile_height == tileset.tileheight
    IN  IF tileset.is_fallback THEN Returned(FallbackFor(tileset_gid), tileset_gid)
        ELSE IF local_id >= tileset.tilecount
        THEN Returned(FallbackFor(tileset_gid), tileset_gid)
        ELSE IF columns = 0 THEN Raised("ZeroDivisionError", tileset_gid)
        ELSE LET x == (local_id \div columns) * tile_width
                 y == (local_id % columns) * tile_height
             IN  IF /\ x + tile_width <= tileset.image.w
                    /\ y + tile_height <= tileset.image.h
                 THEN Returned(Subsurface(tileset.image, x, y,
                                          tile_width, tile_height), tileset_gid)
                 ELSE Returned(FallbackFor(tileset_gid), tileset_gid)

TileOfTileset(real_gid, tileset_gid) ==
    LET tileset == tileset_images[tileset_gid]
        local_id == real_gid - tileset_gid
        columns == tileset.columns
        tile_width == tileset.tilewidth
        tile_height == tileset.tileheight
    IN  IF tileset.is_fallback THEN Returned(FallbackFor(tileset_gid), tileset_gid)
        ELSE IF local_id >= tileset.tilecount
        THEN Returned(FallbackFor(tileset_gid), tileset_gid)
        ELSE IF columns = 0 THEN Raised("ZeroDivisionError", tileset_gid)
        ELSE LET x == (local_id % columns) * tile_width
                 y == (local_id \div columns) * tile_height
             IN  IF /\ x + tile_width <= tileset.image.w
                    /\ y + tile_height <= tileset.image.h
                 THEN Returned(Subsurface(tileset.image, x, y,
                                          tile_width, tile_height), tileset_gid)
                 ELSE Returned(FallbackFor(tileset_gid), tileset_gid)

\* get_tile_image(gid): the image returned (or the exception raised) and the
\* tileset_gid it selected
get_tile_image(gid) ==
    IF GidIsZero(gid) THEN Returned(NoImage, 0)
    ELSE LET real_gid == RealGid(gid)
             tileset_gid ==
                 FindTilesetGid(SortedReverse(DOMAIN tileset_images), real_gid)
         IN  IF tileset_gid = 0 THEN Returned(default_fallback, 0)
             ELSE TileOfTileset(real_gid, tileset_gid)

(***************************************************************************)
(* Map documents                                                           *)
(***************************************************************************)
\* <tileset> elements: the attributes the loader reads, whether the element
\* has an <image>, whether its file is found and decodes, and the size of
\* the decoded atlas
Tileset(firstgid, columns, tilecount, has_image, loadable, image_w, image_h) ==
    [firstgid |-> firstgid, tilewidth |-> 16, tileheight |-> 16,
     columns |-> columns, tilecount |-> tilecount,
     has_image |-> has_image, loadable |-> loadable,
     image_w |-> image_w, image_h |-> image_h]

\* the tilesets the model's documents are made of: A and B of the spec's
\* end-to-end example, and variants of them that are external (no <image>),
\* fail to load, declare more tiles than the atlas holds, or no columns
TilesetPool ==
    { Tileset(1, 2, 4, TRUE, TRUE, 32, 32),
      Tileset(5, 2, 4, TRUE, TRUE, 32, 32),
      Tileset(5, 2, 4, FALSE, FALSE, 0, 0),
      Tileset(5, 2, 4, TRUE, FALSE, 0, 0),
      Tileset(3, 2, 6, TRUE, TRUE, 32, 32),
      Tileset(9, 0, 4, TRUE, TRUE, 32, 32) }

\* largest number of <tileset> elements in a document
MaxTilesets == 2

TilesetLists ==
    UNION {[1..n -> TilesetPool] : n \in 0..MaxTilesets}

\* the document: whether it parses, the map's tile size, its tilesets and
\* its layers
MapDocument(tilesets, layers) ==
    [wellformed |-> TRUE, tilewidth |-> 64, tileheight |-> 64,
     tilesets |-> tilesets, layers |-> layers]

\* the registry built from the document by the loader
RegistryLoaded ==
    /\ tileset_images = LoadTilesetImages(root.tilesets, Len(root.tilesets))
    /\ fallback_tiles = LoadFallbackTiles(root.tilesets, Len(root.tilesets))
    /\ default_fallback = create_fallback_tile(root.tilewidth, root.tileheight, -1)

\* a registry and a document nobody reads (SpecLRU)
NoRegistry ==
    /\ root = MapDocument(<<>>, <<>>)
    /\ tileset_images = <<>>
    /\ fallback_tiles = <<>>
    /\ default_fallback = create_fallback_tile(64, 64, -1)

NoCall ==
    /\ gid_arg = Gid(0, 0)
    /\ resolved = Returned(NoImage, 0)

\* no path search is in progress (every specification but SpecUCS and
\* SpecFindPath)
NoFrame == [pc |-> "idle"]
NoSearch ==
    /\ ucs = NoFrame
    /\ fp = NoFrame
    /\ expanded = <<>>

(***************************************************************************)
(* Module-level constants of src/load_map.py                               *)
(***************************************************************************)
TILE_SIZE == 32
\* MAP_SCALE = 0.5, as the divisor it amounts to
MAP_SCALE_DIV == 2
\* int(TILE_SIZE * MAP_SCALE)
SCALED_TILE_SIZE == TILE_SIZE \div MAP_SCALE_DIV
MAX_CACHE_SIZE == 50000
PRE_RENDERED_CHUNKS == 120
\* camera_speed, in pixels per frame
camera_speed == 10

\* positions are kept in units of 1/UNIT pixel: layer_offset * MAP_SCALE * zoom
\* is a whole number of twentieths of a pixel when zoom is a number of tenths
UNIT == 20

\* The doubles zoom can hold: every value reachable from 1.0 by
\* zoom = min(2.0, zoom + 0.1) and zoom = max(0.2, zoom - 0.1) in IEEE-754
\* double arithmetic, in increasing order.  Entry i gives, for the double
\* shown on its line: the nearest number of tenths, the index of
\* min(2.0, zoom + 0.1), the index of max(0.2, zoom - 0.1), and
\* int(SCALED_TILE_SIZE * zoom).
ZoomTable == <<
    [tenths |->  2, zoom_in |->  5, zoom_out |->  1, tile_size |->  3],  \*  1: 0.2
    [tenths |->  2, zoom_in |->  5, zoom_out |->  1, tile_size |->  3],  \*  2: 0.20000000000000004
    [tenths |->  2, zoom_in |->  6, zoom_out |->  1, tile_size |->  3],  \*  3: 0.20000000000000015
    [tenths |->  3, zoom_in |->  7, zoom_out |->  1, tile_size |->  4],  \*  4: 0.2999999999999994
    [tenths |->  3, zoom_in |->  8, zoom_out |->  2, tile_size |->  4],  \*  5: 0.30000000000000004
    [tenths |->  3, zoom_in |->  9, zoom_out |->  3, tile_size |->  4],  \*  6: 0.30000000000000016
    [tenths |->  4, zoom_in |-> 10, zoom_out |->  4, tile_size |->  6],  \*  7: 0.39999999999999936
    [tenths |->  4, zoom_in |-> 11, zoom_out |->  5, tile_size |->  6],  \*  8: 0.4
    [tenths |->  4, zoom_in |-> 12, zoom_out |->  6, tile_size |->  6],  \*  9: 0.40000000000000013
    [tenths |->  5, zoom_in |-> 13, zoom_out |->  7, tile_size |->  7],  \* 10: 0.49999999999999933
    [tenths |->  5, zoom_in |-> 14, zoom_out |->  8, tile_size |->  8],  \* 11: 0.5
    [tenths |->  5, zoom_in |-> 15, zoom_out |->  9, tile_size |->  8],  \* 12: 0.5000000000000001
    [tenths |->  6, zoom_in |-> 16, zoom_out |-> 10, tile_size |->  9],  \* 13: 0.5999999999999993
    [tenths |->  6, zoom_in |-> 17, zoom_out |-> 11, tile_size |->  9],  \* 14: 0.6
    [tenths |->  6, zoom_in |-> 18, zoom_out |-> 12, tile_size |->  9],  \* 15: 0.6000000000000001
    [tenths |->  7, zoom_in |-> 19, zoom_out |-> 13, tile_size |-> 11],  \* 16: 0.6999999999999993
    [tenths |->  7, zoom_in |-> 20, zoom_out |-> 14, tile_size |-> 11],  \* 17: 0.7
    [tenths |->  7, zoom_in |-> 21, zoom_out |-> 15, tile_size |-> 11],  \* 18: 0.7000000000000001
    [tenths |->  8, zoom_in |-> 22, zoom_out |-> 16, tile_size |-> 12],  \* 19: 0.7999999999999993
    [tenths |->  8, zoom_in |-> 23, zoom_out |-> 17, tile_size |-> 12],  \* 20: 0.7999999999999999
    [tenths |->  8, zoom_in |-> 24, zoom_out |-> 18, tile_size |-> 12],  \* 21: 0.8
    [tenths |->  9, zoom_in |-> 25, zoom_out |-> 19, tile_size |-> 14],  \* 22: 0.8999999999999992
    [tenths |->  9, zoom_in |-> 26, zoom_out |-> 20, tile_size |-> 14],  \* 23: 0.8999999999999999
    [tenths |->  9, zoom_in |-> 27, zoom_out |-> 21, tile_size |-> 14],  \* 24: 0.9
    [tenths |-> 10, zoom_in |-> 28, zoom_out |-> 22, tile_size |-> 15],  \* 25: 0.9999999999999992
    [tenths |-> 10, zoom_in |-> 29, zoom_out |-> 23, tile_size |-> 15],  \* 26: 0.9999999999999999
    [tenths |-> 10, zoom_in |-> 30, zoom_out |-> 24, tile_size |-> 16],  \* 27: 1.0
    [tenths |-> 11, zoom_in |-> 31, zoom_out |-> 25, tile_size |-> 17],  \* 28: 1.0999999999999992
    [tenths |-> 11, zoom_in |-> 32, zoom_out |-> 26, tile_size |-> 17],  \* 29: 1.0999999999999999
    [tenths |-> 11, zoom_in |-> 33, zoom_out |-> 27, tile_size |-> 17],  \* 30: 1.1
    [tenths |-> 12, zoom_in |-> 34, zoom_out |-> 28, tile_size |-> 19],  \* 31: 1.1999999999999993
    [tenths |-> 12, zoom_in |-> 35, zoom_out |-> 29, tile_size |-> 19],  \* 32: 1.2
    [tenths |-> 12, zoom_in |-> 36, zoom_out |-> 30, tile_size |-> 19],  \* 33: 1.2000000000000002
    [tenths |-> 13, zoom_in |-> 37, zoom_out |-> 31, tile_size |-> 20],  \* 34: 1.2999999999999994
    [tenths |-> 13, zoom_in |-> 38, zoom_out |-> 32, tile_size |-> 20],  \* 35: 1.3
    [tenths |-> 13, zoom_in |-> 39, zoom_out |-> 33, tile_size |-> 20],  \* 36: 1.3000000000000003
    [tenths |-> 14, zoom_in |-> 40, zoom_out |-> 34, tile_size |-> 22],  \* 37: 1.3999999999999995
    [tenths |-> 14, zoom_in |-> 41, zoom_out |-> 35, tile_size |-> 22],  \* 38: 1.4000000000000001
    [tenths |-> 14, zoom_in |-> 42, zoom_out |-> 36, tile_size |-> 22],  \* 39: 1.4000000000000004
    [tenths |-> 15, zoom_in |-> 43, zoom_out |-> 37, tile_size |-> 23],  \* 40: 1.4999999999999996
    [tenths |-> 15, zoom_in |-> 44, zoom_out |-> 38, tile_size |-> 24],  \* 41: 1.5000000000000002
    [tenths |-> 15, zoom_in |-> 45, zoom_out |-> 39, tile_size |-> 24],  \* 42: 1.5000000000000004
    [tenths |-> 16, zoom_in |-> 46, zoom_out |-> 40, tile_size |-> 25],  \* 43: 1.5999999999999996
    [tenths |-> 16, zoom_in |-> 47, zoom_out |-> 41, tile_size |-> 25],  \* 44: 1.6000000000000003
    [tenths |-> 16, zoom_in |-> 48, zoom_out |-> 42, tile_size |-> 25],  \* 45: 1.6000000000000005
    [tenths |-> 17, zoom_in |-> 49, zoom_out |-> 43, tile_size |-> 27],  \* 46: 1.6999999999999997
    [tenths |-> 17, zoom_in |-> 50, zoom_out |-> 44, tile_size |-> 27],  \* 47: 1.7000000000000004
    [tenths |-> 17, zoom_in |-> 51, zoom_out |-> 45, tile_size |-> 27],  \* 48: 1.7000000000000006
    [tenths |-> 18, zoom_in |-> 52, zoom_out |-> 46, tile_size |-> 28],  \* 49: 1.7999999999999998
    [tenths |-> 18, zoom_in |-> 53, zoom_out |-> 47, tile_size |-> 28],  \* 50: 1.8000000000000005
    [tenths |-> 18, zoom_in |-> 54, zoom_out |-> 48, tile_size |-> 28],  \* 51: 1.8000000000000007
    [tenths |-> 19, zoom_in |-> 55, zoom_out |-> 49, tile_size |-> 30],  \* 52: 1.9
    [tenths |-> 19, zoom_in |-> 55, zoom_out |-> 50, tile_size |-> 30],  \* 53: 1.9000000000000006
    [tenths |-> 19, zoom_in |-> 55, zoom_out |-> 51, tile_size |-> 30],  \* 54: 1.9000000000000008
    [tenths |-> 20, zoom_in |-> 55, zoom_out |-> 52, tile_size |-> 32]  \* 55: 2.0
    >>

\* zoom = 1.0
ZOOM_INITIAL == 27

\* the state of the variables of the program while it is not modelled
\* (SpecLRU, SpecResolve)
NoProgram ==
    /\ pc = "exited" /\ exit_status = 0
    /\ screen_info = [current_w |-> 0, current_h |-> 0]
    /\ WIDTH = 0 /\ HEIGHT = 0
    /\ FULLSCREEN = FALSE /\ SHOW_DETAILS = FALSE
    /\ chunks = <<>>
    /\ camera_x = 0 /\ camera_y = 0 /\ zoom = ZOOM_INITIAL
    /\ tile_cache = NewLRUCache(MAX_CACHE_SIZE)
    /\ chunk_cache = NewLRUCache(PRE_RENDERED_CHUNKS)
    /\ running = FALSE
    /\ event_list = <<>> /\ ev_i = 1
    /\ details_button = [active |-> FALSE, hover |-> FALSE, clicked |-> FALSE]
    /\ perf_monitor = [visible_tiles |-> 0, total_tiles |-> 0]
    /\ screen = <<>> /\ display = <<>> /\ calls = <<>>
    /\ frames = 0 /\ inputs = 0

(***************************************************************************)
(* SpecResolve: the registry of a document, and get_tile_image called on   *)
(* tile references with every combination of flags.                        *)
(***************************************************************************)
\* the low 29 bits the calls are made with
RefIds == (0..13) \cup {100, TwoTo29 - 1}

InitResolve ==
    /\ \E tilesets \in TilesetLists : root = MapDocument(tilesets, <<>>)
    /\ RegistryLoaded
    /\ NoCall
    /\ NoSearch
    /\ NoProgram
    /\ lru = NewLRUCache(1) /\ lastOp = NoOp /\ recency = <<>>

CallGetTileImage(gid) ==
    /\ gid_arg' = gid
    /\ resolved' = get_tile_image(gid)
    /\ UNCHANGED <<searchVars, lruVars, registryVars, frameVars>>

NextResolve ==
    \E hi \in 0..7, lo \in RefIds : CallGetTileImage(Gid(hi, lo))

SpecResolve == InitResolve /\ [][NextResolve]_vars

(***************************************************************************)
(* Chunk loading (src/load_map.py:359-414)                                 *)
(***************************************************************************)
\* chunk_info['data']: the rows of chunk_width values that the CSV text of
\* the chunk holds completely
Rows(data, chunk_width) ==
    [r \in 1..(Len(data) \div chunk_width) |->
        SubSeq(data, (r - 1) * chunk_width + 1, r * chunk_width)]

\* the chunk_info built for chunk c of layer
ChunkInfo(layer, c) ==
    [layer |-> layer.name, x |-> c.x, y |-> c.y,
     width |-> c.width, height |-> c.height,
     data |-> Rows(c.data, c.width),
     offset_x |-> layer.offsetx, offset_y |-> layer.offsety]

\* the chunk_info records of one layer, in document order
LayerChunks(layer) ==
    [i \in 1..Len(layer.chunks) |-> ChunkInfo(layer, layer.chunks[i])]

\* chunks after the first n layers of the document
RECURSIVE LoadChunks(_, _)
LoadChunks(layers, n) ==
    IF n = 0 THEN <<>>
    ELSE LoadChunks(layers, n - 1) \o LayerChunks(layers[n])

\* initial camera position: the first chunk at a quarter of the window
InitialCameraX(first_chunk, width) ==
    - first_chunk.x * SCALED_TILE_SIZE * UNIT
    - first_chunk.offset_x * (UNIT \div MAP_SCALE_DIV)
    + (width \div 4) * UNIT

InitialCameraY(first_chunk, height) ==
    - first_chunk.y * SCALED_TILE_SIZE * UNIT
    - first_chunk.offset_y * (UNIT \div MAP_SCALE_DIV)
    + (height \div 4) * UNIT

(***************************************************************************)
(* Frame geometry (src/load_map.py:525-534, 647-670)                       *)
(***************************************************************************)
\* current_effective_tile_size = int(SCALED_TILE_SIZE * zoom)
current_effective_tile_size == ZoomTable[zoom].tile_size

\* base_x, base_y, chunk_width, chunk_height of a chunk, in 1/UNIT pixel;
\* layer_offset * MAP_SCALE * zoom is offset * tenths / 20 pixel
BaseXOffsetUnzoomed(chunk) ==
    chunk.x * current_effective_tile_size * UNIT + camera_x
        + chunk.offset_x * ZoomTable[ZOOM_INITIAL].tenths

BaseX(chunk) ==
    chunk.x * current_effective_tile_size * UNIT + camera_x
        + chunk.offset_x * ZoomTable[zoom].tenths

BaseY(chunk) ==
    chunk.y * current_effective_tile_size * UNIT + camera_y
        + chunk.offset_y * ZoomTable[zoom].tenths

ChunkWidth(chunk) == chunk.width * current_effective_tile_size * UNIT
ChunkHeight(chunk) == chunk.height * current_effective_tile_size * UNIT

\* is_chunk_visible(chunk_x, chunk_y, chunk_width, chunk_height, camera_x, camera_y)
is_chunk_visible_by_origin(chunk_x, chunk_y, chunk_width, chunk_height, cam_x, cam_y) ==
    LET screen_x == chunk_x + cam_x
        screen_y == chunk_y + cam_y
    IN  ~ (\/ screen_x < 0
           \/ screen_x > WIDTH * UNIT
           \/ screen_y < 0
           \/ screen_y > HEIGHT * UNIT)

is_chunk_visible(chunk_x, chunk_y, chunk_width, chunk_height, cam_x, cam_y) ==
    LET screen_x == chunk_x + cam_x
        screen_y == chunk_y + cam_y
    IN  ~ (\/ screen_x + chunk_width < 0
           \/ screen_x > WIDTH * UNIT
           \/ screen_y + chunk_height < 0
           \/ screen_y > HEIGHT * UNIT)

\* the test the main loop makes for a chunk
Visible(chunk) ==
    is_chunk_visible(BaseX(chunk), BaseY(chunk),
                     ChunkWidth(chunk), ChunkHeight(chunk), 0, 0)

(***************************************************************************)
(* sorted(chunks, key=layer name) (src/load_map.py:653).  A layer name is  *)
(* the sequence of its character codes; the sort is stable.                *)
(***************************************************************************)
\* a < b for two strings
RECURSIVE StrLess(_, _)
StrLess(a, b) ==
    IF b = <<>> THEN FALSE
    ELSE IF a = <<>> THEN TRUE
    ELSE IF Head(a) # Head(b) THEN Head(a) < Head(b)
    ELSE StrLess(Tail(a), Tail(b))

\* the sorted sequence of chunk indices `sorted` with index i inserted
\* behind every index whose layer name is not greater
RECURSIVE InsertByLayer(_, _)
InsertByLayer(sorted, i) ==
    IF sorted = <<>> THEN <<i>>
    ELSE IF StrLess(chunks[i].layer, chunks[Head(sorted)].layer)
         THEN <<i>> \o sorted
         ELSE <<Head(sorted)>> \o InsertByLayer(Tail(sorted), i)

\* the indices of the first n chunks, sorted by layer name
RECURSIVE SortedPrefix(_)
SortedPrefix(n) ==
    IF n = 0 THEN <<>> ELSE InsertByLayer(SortedPrefix(n - 1), n)

\* sorted_chunks, as indices into chunks
sorted_chunks == SortedPrefix(Len(chunks))

(***************************************************************************)
(* The render step threads a record st through the calls it makes:         *)
(* [tile_cache, chunk_cache, calls, screen, exc, visible_tiles,            *)
(* total_tiles, SHOW_DETAILS]; exc is the exception that is propagating,   *)
(* "" if none.                                                             *)
(***************************************************************************)
\* one entry of calls: function fn was called for cell (x, y) of the chunk
\* with index chunk; gid and hit as far as they apply
Call(fn, at, gid, hit) ==
    [fn |-> fn, chunk |-> at.chunk, x |-> at.x, y |-> at.y,
     gid |-> gid, hit |-> hit]

Logged(st, fn, at, gid, hit) ==
    [st EXCEPT !.calls = Append(@, Call(fn, at, gid, hit))]

\* pygame.transform.smoothscale / scale of tile_image to (size, size)
ScaledTile(tile_image, size) ==
    [kind |-> "scaled", src |-> tile_image, size |-> size,
     smooth |-> size < tile_image.w]

\* get_scaled_tile after the miss in tile_cache (lines 476-485): found is
\* what get_tile_image(gid) returned or raised
ScaledOnMiss(st1, gid, size, at, found) ==
    LET cache_key == <<gid, size>>
        st2 == Logged(st1, "get_tile_image", at, gid, FALSE)
        scaled_tile == ScaledTile(found.ret, size)
    IN  IF found.exc # ""
        THEN [st |-> [st2 EXCEPT !.exc = found.exc], ret |-> NoImage]
        ELSE IF found.ret # NoImage
        THEN [st |-> Logged([st2 EXCEPT !.tile_cache =
                                LRUPut(@, cache_key, scaled_tile)],
                            "tile_cache.put", at, gid, FALSE),
              ret |-> scaled_tile]
        ELSE [st |-> st2, ret |-> NoImage]

\* get_scaled_tile after cached_tile = tile_cache.get(cache_key) (lines
\* 471-485): got is what the lookup returned
TileLookedUp(st, gid, size, at, got) ==
    LET st1 == Logged([st EXCEPT !.tile_cache = got.self],
                      "tile_cache.get", at, gid, got.ret # None)
    IN  IF got.ret # None THEN [st |-> st1, ret |-> got.ret[1]]
        ELSE ScaledOnMiss(st1, gid, size, at, get_tile_image(gid))

\* get_scaled_tile(gid, size) (src/load_map.py:469-485)
get_scaled_tile(st, gid, size, at) ==
    TileLookedUp(st, gid, size, at, LRUGet(st.tile_cache, <<gid, size>>))

\* pygame.Surface((chunk_width, chunk_height), pygame.SRCALPHA)
NewChunkSurface(w, h) == [kind |-> "chunk", w |-> w, h |-> h, blits |-> <<>>]

\* lines 511-518 for the cell `at`: t is what get_scaled_tile returned;
\* r is [st, surface]
CellBlitted(r, t, gid, size, at) ==
    IF t.st.exc # "" \/ t.ret = NoImage
    THEN [st |-> t.st, surface |-> r.surface]
    ELSE [st |-> Logged(t.st, "chunk_surface.blit", at, gid, FALSE),
          surface |-> [r.surface EXCEPT !.blits =
              Append(@, [tile |-> t.ret,
                         x |-> at.x * size, y |-> at.y * size])]]

\* the body of the two for loops of render_chunk_to_surface for cell k
\* (row-major, from 1) of the chunk: r is [st, surface]
RenderCell(r, ci, size, k) ==
    LET chunk == chunks[ci]
        y == (k - 1) \div chunk.width
        x == (k - 1) % chunk.width
        gid == chunk.data[y + 1][x + 1]
        at == [chunk |-> ci, x |-> x, y |-> y]
    IN  IF r.st.exc # "" \/ ~GidPositive(gid) THEN r
        ELSE CellBlitted(r, get_scaled_tile(r.st, gid, size, at), gid, size, at)

\* the two for loops after the first k cells
RECURSIVE RenderCells(_, _, _, _)
RenderCells(r, ci, size, k) ==
    IF k = 0 THEN r
    ELSE RenderCell(RenderCells(r, ci, size, k - 1), ci, size, k)

\* chunk_key = (chunk['x'], chunk['y'], current_effective_tile_size)
chunk_key(chunk, size) == <<chunk.x, chunk.y, size>>

\* render_chunk_to_surface after the two for loops (lines 520-522): done is
\* [st, surface] as the loops left them
ChunkCompositedStoresEmpty(done, ci, size, empty) ==
    IF done.st.exc # "" THEN [st |-> done.st, ret |-> empty]
    ELSE [st |-> Logged([done.st EXCEPT !.chunk_cache =
                            LRUPut(@, chunk_key(chunks[ci], size), empty)],
                        "chunk_cache.put",
                        [chunk |-> ci, x |-> -1, y |-> -1], Gid(0, 0), FALSE),
          ret |-> done.surface]

ChunkComposited(done, ci, size, empty) ==
    IF done.st.exc # "" THEN [st |-> done.st, ret |-> empty]
    ELSE [st |-> Logged([done.st EXCEPT !.chunk_cache =
                            LRUPut(@, chunk_key(chunks[ci], size), done.surface)],
                        "chunk_cache.put",
                        [chunk |-> ci, x |-> -1, y |-> -1], Gid(0, 0), FALSE),
          ret |-> done.surface]

\* render_chunk_to_surface after cached_surface = chunk_cache.get(chunk_key)
\* (lines 493-522): got is what the lookup returned
ChunkLookedUpAlwaysComposes(st, ci, size, got) ==
    LET chunk == chunks[ci]
        at == [chunk |-> ci, x |-> -1, y |-> -1]
        st1 == Logged(Logged([st EXCEPT !.chunk_cache = got.self],
                             "render_chunk_to_surface", at, Gid(0, 0), FALSE),
                      "chunk_cache.get", at, Gid(0, 0), got.ret # None)
        empty == NewChunkSurface(chunk.width * size, chunk.height * size)
    IN  ChunkComposited(
            RenderCells([st |-> st1, surface |-> empty], ci, size,
                        Len(chunk.data) * chunk.width),
            ci, size, empty)

ChunkLookedUp(st, ci, size, got) ==
    LET chunk == chunks[ci]
        at == [chunk |-> ci, x |-> -1, y |-> -1]
        st1 == Logged(Logged([st EXCEPT !.chunk_cache = got.self],
                             "render_chunk_to_surface", at, Gid(0, 0), FALSE),
                      "chunk_cache.get", at, Gid(0, 0), got.ret # None)
        empty == NewChunkSurface(chunk.width * size, chunk.height * size)
    IN  IF got.ret # None THEN [st |-> st1, ret |-> got.ret[1]]
        ELSE ChunkComposited(
                 RenderCells([st |-> st1, surface |-> empty], ci, size,
                             Len(chunk.data) * chunk.width),
                 ci, size, empty)

\* render_chunk_to_surface(chunk, camera_x, camera_y,
\* current_effective_tile_size, zoom) (src/load_map.py:488-522)
render_chunk_to_surface(st, ci, size) ==
    ChunkLookedUp(st, ci, size,
                  LRUGet(st.chunk_cache, chunk_key(chunks[ci], size)))

\* visible_tiles += sum(1 for gid in row if gid > 0) over the rows
PositiveCells(chunk) ==
    Cardinality({<<r, c>> \in (1..Len(chunk.data)) \X (1..chunk.width) :
                    GidPositive(chunk.data[r][c])})

\* screen.blit(chunk_surface, (base_x, base_y)) and the tile statistics
BlittedCountingThroughCache(st, ci, surface) ==
    LET chunk == chunks[ci]
    IN  [st EXCEPT
           !.screen = Append(@, [kind |-> "chunk", chunk |-> ci,
                                 surface |-> surface,
                                 x |-> BaseX(chunk), y |-> BaseY(chunk)]),
           !.tile_cache = IF st.SHOW_DETAILS
                          THEN [@ EXCEPT !.hits = @ + PositiveCells(chunk)]
                          ELSE @,
           !.total_tiles = IF st.SHOW_DETAILS
                           THEN @ + Len(chunk.data) * chunk.width ELSE @,
           !.visible_tiles = IF st.SHOW_DETAILS
                             THEN @ + PositiveCells(chunk) ELSE @]

Blitted(st, ci, surface) ==
    LET chunk == chunks[ci]
    IN  [st EXCEPT
           !.screen = Append(@, [kind |-> "chunk", chunk |-> ci,
                                 surface |-> surface,
                                 x |-> BaseX(chunk), y |-> BaseY(chunk)]),
           !.total_tiles = IF st.SHOW_DETAILS
                           THEN @ + Len(chunk.data) * chunk.width ELSE @,
           !.visible_tiles = IF st.SHOW_DETAILS
                             THEN @ + PositiveCells(chunk) ELSE @]

\* lines 675-681: r is what render_chunk_to_surface returned
ChunkDrawn(r, ci) ==
    IF r.st.exc # "" THEN r.st ELSE Blitted(r.st, ci, r.ret)

\* the body of `for chunk in sorted_chunks` (src/load_map.py:655-681)
ChunkIterationLookupFirst(st, ci) ==
    IF st.exc # "" THEN st
    ELSE LET r == render_chunk_to_surface(st, ci, current_effective_tile_size)
         IN  IF r.st.exc # "" \/ ~Visible(chunks[ci]) THEN r.st
             ELSE Blitted(r.st, ci, r.ret)

ChunkIteration(st, ci) ==
    IF st.exc # "" THEN st
    ELSE IF ~Visible(chunks[ci]) THEN st
    ELSE ChunkDrawn(render_chunk_to_surface(st, ci, current_effective_tile_size),
                    ci)

\* the for loop over the chunk indices in order
RECURSIVE RenderChunks(_, _)
RenderChunks(st, order) ==
    IF order = <<>> THEN st
    ELSE RenderChunks(ChunkIteration(st, Head(order)), Tail(order))

\* the state the render step starts from: the screen after screen.fill, and
\* the global SHOW_DETAILS, which no call of the render step changes
RenderStart ==
    [tile_cache |-> tile_cache, chunk_cache |-> chunk_cache, calls |-> <<>>,
     screen |-> <<>>, exc |-> "", visible_tiles |-> 0, total_tiles |-> 0,
     SHOW_DETAILS |-> SHOW_DETAILS]

\* the overlay drawn after the chunks: button, statistics or FPS, controls
Overlay ==
    <<[kind |-> "details_button"],
      [kind |-> IF SHOW_DETAILS THEN "info_lines" ELSE "minimal_info"],
      [kind |-> "controls_text"]>>

(***************************************************************************)
(* Inputs of the program: the map document, the display, the events and    *)
(* the held keys of each frame                                             *)
(***************************************************************************)
\* number of frames a behaviour starts
MaxFrames == 3
\* number of events pygame.event.get() returns in one frame
MaxEvents == 2
\* number of events and held keys in one behaviour
MaxInputs == 3

Layer(name, offsetx, offsety, layer_chunks) ==
    [name |-> name, offsetx |-> offsetx, offsety |-> offsety,
     chunks |-> layer_chunks]

Chunk(x, y, width, height, data) ==
    [x |-> x, y |-> y, width |-> width, height |-> height, data |-> data]

\* Two layers, declared as "b" then "a" (character codes 98 and 97); "b" has
\* a chunk at the origin holding tile 1 and a cell with only the diagonal
\* flag set, and a chunk three tiles to the right holding an empty cell and
\* tile 1 flipped horizontally; "a", shifted by 4 pixels, has a chunk one
\* tile down holding tile 6.
TwoLayerMap ==
    MapDocument(
        <<Tileset(1, 2, 4, TRUE, TRUE, 32, 32),
          Tileset(5, 2, 4, TRUE, TRUE, 32, 32)>>,
        <<Layer(<<98>>, 0, 0,
                <<Chunk(0, 0, 2, 1, <<Gid(0, 1), Gid(FLIPPED_DIAGONALLY_FLAG, 0)>>),
                  Chunk(3, 0, 2, 1, <<Gid(0, 0), Gid(FLIPPED_HORIZONTALLY_FLAG, 1)>>)>>),
          Layer(<<97>>, 4, 0,
                <<Chunk(0, 1, 1, 1, <<Gid(0, 6)>>)>>)>>)

\* The same document with a third layer "c" (character code 99) declared
\* last, whose one chunk has the origin (0, 0) of the first chunk of "b" and
\* holds tiles 6 and 2: layers of one map cover the same chunk origins.
ThreeLayerMap ==
    [TwoLayerMap EXCEPT !.layers =
        Append(@, Layer(<<99>>, 0, 0,
                        <<Chunk(0, 0, 2, 1, <<Gid(0, 6), Gid(0, 2)>>)>>))]

\* a document that ET.parse rejects
MalformedMap == [TwoLayerMap EXCEPT !.wellformed = FALSE]

MapDocs == {ThreeLayerMap, MalformedMap}

\* pygame.display.Info() of the displays the model runs on
ScreenInfos == {[current_w |-> 40, current_h |-> 40]}

\* int(SCREEN_WIDTH * 0.9)
Windowed(n) == (n * 9) \div 10

Event(type, key, w, h) == [type |-> type, key |-> key, w |-> w, h |-> h]

\* the events a frame can receive
Events ==
    { Event("QUIT", "", 0, 0),
      Event("KEYDOWN", "K_ESCAPE", 0, 0),
      Event("KEYDOWN", "K_PLUS", 0, 0),
      Event("KEYDOWN", "K_MINUS", 0, 0),
      Event("KEYDOWN", "K_d", 0, 0),
      Event("KEYDOWN", "K_F11", 0, 0),
      Event("VIDEORESIZE", "", 30, 30),
      Event("MOUSEBUTTONDOWN", "", 0, 0),
      Event("MOUSEBUTTONUP", "", 0, 0) }

ArrowKeys == {"K_LEFT", "K_RIGHT", "K_UP", "K_DOWN"}

(***************************************************************************)
(* The event loop (src/load_map.py:576-621)                                *)
(***************************************************************************)
\* rel_camera = camera / WIDTH; camera = rel_camera * new WIDTH
Rescaled(camera, old_size, new_size) == (camera * new_size) \div old_size

\* the window after F11: [FULLSCREEN, WIDTH, HEIGHT]
ToggledWindow(fullscreen) ==
    IF ~fullscreen
    THEN [FULLSCREEN |-> TRUE,
          WIDTH |-> screen_info.current_w, HEIGHT |-> screen_info.current_h]
    ELSE [FULLSCREEN |-> FALSE,
          WIDTH |-> Windowed(screen_info.current_w),
          HEIGHT |-> Windowed(screen_info.current_h)]

\* The model keeps positions in whole units: it takes the event lists in
\* which every F11 rescales the camera to a whole number of units.
RECURSIVE RescalesExactly(_, _, _, _, _, _)
RescalesExactly(events, cx, cy, w, h, fullscreen) ==
    IF events = <<>> THEN TRUE
    ELSE LET e == Head(events)
             win == ToggledWindow(fullscreen)
         IN  IF e.type = "KEYDOWN" /\ e.key = "K_F11"
             THEN /\ (cx * win.WIDTH) % w = 0
                  /\ (cy * win.HEIGHT) % h = 0
                  /\ RescalesExactly(Tail(events),
                                     Rescaled(cx, w, win.WIDTH),
                                     Rescaled(cy, h, win.HEIGHT),
                                     win.WIDTH, win.HEIGHT, win.FULLSCREEN)
             ELSE IF e.type = "VIDEORESIZE" /\ ~fullscreen
             THEN RescalesExactly(Tail(events), cx, cy, e.w, e.h, fullscreen)
             ELSE RescalesExactly(Tail(events), cx, cy, w, h, fullscreen)

\* zoom = min(2.0, zoom + 0.1) and zoom = max(0.2, zoom - 0.1)
ZoomedIn(z) == ZoomTable[z].zoom_in

\* zoom = zoom - 0.1: index 0 stands for a double below 0.2
ZoomedOutUnclamped(z) ==
    IF ZoomTable[z].tenths <= 2 THEN 0 ELSE ZoomTable[z].zoom_out

ZoomedOut(z) == ZoomTable[z].zoom_out

IsZoomKey(e) == e.type = "KEYDOWN" /\ e.key \in {"K_PLUS", "K_EQUALS", "K_MINUS"}

\* the cache after the clear of a zoom key
ClearedNothing(c) == c

ClearedOldestOnly(c) ==
    IF c.cache = <<>> THEN c ELSE [c EXCEPT !.cache = PopFirst(@)]

ClearedOnZoom(c) == LRUClear(c)

(***************************************************************************)
(* ToggleButton.update (src/load_map.py:449-463)                           *)
(***************************************************************************)
\* the for loop over the events: r is [button, changed]; the loop returns
\* at the first state change
RECURSIVE ButtonEvents(_, _)
ButtonEvents(r, events) ==
    IF events = <<>> \/ r.changed THEN r
    ELSE LET e == Head(events)
             b == r.button
         IN  IF e.type = "MOUSEBUTTONDOWN"
             THEN ButtonEvents([r EXCEPT !.button.clicked = b.clicked \/ b.hover],
                               Tail(events))
             ELSE IF e.type = "MOUSEBUTTONUP"
             THEN IF b.clicked /\ b.hover
                  THEN [button |-> [b EXCEPT !.active = ~b.active,
                                             !.clicked = FALSE],
                        changed |-> TRUE]
                  ELSE ButtonEvents([r EXCEPT !.button.clicked = FALSE],
                                    Tail(events))
             ELSE ButtonEvents(r, Tail(events))

\* details_button.update(event_list) with the pointer over the button or not
ButtonUpdate(button, events, hover) ==
    ButtonEvents([button |-> [button EXCEPT !.hover = hover],
                  changed |-> FALSE], events)

\* camera_x and camera_y after the arrow keys held in keys
MovedXClamped(cx, keys) ==
    Max(0, cx + (IF "K_LEFT" \in keys THEN camera_speed * UNIT ELSE 0)
              - (IF "K_RIGHT" \in keys THEN camera_speed * UNIT ELSE 0))

MovedX(cx, keys) ==
    cx + (IF "K_LEFT" \in keys THEN camera_speed * UNIT ELSE 0)
       - (IF "K_RIGHT" \in keys THEN camera_speed * UNIT ELSE 0)

MovedY(cy, keys) ==
    cy + (IF "K_UP" \in keys THEN camera_speed * UNIT ELSE 0)
       - (IF "K_DOWN" \in keys THEN camera_speed * UNIT ELSE 0)

(***************************************************************************)
(* Spec: the program.  Module level of src/load_map.py up to the loop,     *)
(* then the frame loop, one action per step of a frame.                    *)
(***************************************************************************)
Init ==
    /\ root \in MapDocs
    /\ tileset_images = <<>>
    /\ fallback_tiles = <<>>
    /\ default_fallback = NoImage
    /\ pc = "load" /\ exit_status = -1
    /\ screen_info \in ScreenInfos
    /\ WIDTH = Windowed(screen_info.current_w)
    /\ HEIGHT = Windowed(screen_info.current_h)
    /\ FULLSCREEN = FALSE /\ SHOW_DETAILS = FALSE
    /\ chunks = <<>>
    /\ camera_x = 0 /\ camera_y = 0 /\ zoom = ZOOM_INITIAL
    /\ tile_cache = NewLRUCache(MAX_CACHE_SIZE)
    /\ chunk_cache = NewLRUCache(PRE_RENDERED_CHUNKS)
    /\ running = TRUE
    /\ event_list = <<>> /\ ev_i = 1
    /\ details_button = [active |-> FALSE, hover |-> FALSE, clicked |-> FALSE]
    /\ perf_monitor = [visible_tiles |-> 0, total_tiles |-> 0]
    /\ screen = <<>> /\ display = <<>> /\ calls = <<>>
    /\ frames = 0 /\ inputs = 0
    /\ lru = NewLRUCache(1) /\ lastOp = NoOp /\ recency = <<>>
    /\ NoCall
    /\ NoSearch

\* the try block that loads the map (lines 196-407) and the initial camera
LoadMapIgnoresError ==
    /\ pc = "load"
    /\ IF root.wellformed
       THEN /\ tileset_images' = LoadTilesetImages(root.tilesets, Len(root.tilesets))
            /\ fallback_tiles' = LoadFallbackTiles(root.tilesets, Len(root.tilesets))
            /\ default_fallback' =
                   create_fallback_tile(root.tilewidth, root.tileheight, -1)
            /\ chunks' = LoadChunks(root.layers, Len(root.layers))
            /\ camera_x' = InitialCameraX(chunks'[1], WIDTH)
            /\ camera_y' = InitialCameraY(chunks'[1], HEIGHT)
            /\ pc' = "loop"
            /\ UNCHANGED exit_status
       ELSE /\ pc' = "loop"
            /\ UNCHANGED <<tileset_images, fallback_tiles, default_fallback,
                           chunks, camera_x, camera_y, exit_status>>
    /\ UNCHANGED <<searchVars,
                   root, lruVars, resolveVars, windowVars, SHOW_DETAILS, zoom,
                   cacheVars, running, eventVars, details_button, outputVars,
                   frames, inputs>>

LoadMap ==
    /\ pc = "load"
    /\ IF root.wellformed
       THEN /\ tileset_images' = LoadTilesetImages(root.tilesets, Len(root.tilesets))
            /\ fallback_tiles' = LoadFallbackTiles(root.tilesets, Len(root.tilesets))
            /\ default_fallback' =
                   create_fallback_tile(root.tilewidth, root.tileheight, -1)
            /\ chunks' = LoadChunks(root.layers, Len(root.layers))
            /\ camera_x' = InitialCameraX(chunks'[1], WIDTH)
            /\ camera_y' = InitialCameraY(chunks'[1], HEIGHT)
            /\ pc' = "loop"
            /\ UNCHANGED exit_status
       ELSE /\ pc' = "exited" /\ exit_status' = 1
            /\ UNCHANGED <<tileset_images, fallback_tiles, default_fallback,
                           chunks, camera_x, camera_y>>
    /\ UNCHANGED <<searchVars,
                   root, lruVars, resolveVars, windowVars, SHOW_DETAILS, zoom,
                   cacheVars, running, eventVars, details_button, outputVars,
                   frames, inputs>>

\* top of the while loop: event_list = pygame.event.get()
GetEvents ==
    /\ pc = "loop" /\ running
    /\ frames < MaxFrames
    /\ \E n \in 0..Min(MaxEvents, MaxInputs - inputs) :
         \E events \in [1..n -> Events] :
            /\ RescalesExactly(events, camera_x, camera_y, WIDTH, HEIGHT,
                               FULLSCREEN)
            /\ event_list' = events
            /\ inputs' = inputs + n
    /\ ev_i' = 1
    /\ frames' = frames + 1
    /\ pc' = "events"
    /\ UNCHANGED <<searchVars,
                   lruVars, registryVars, resolveVars, exit_status, windowVars,
                   SHOW_DETAILS, chunks, cameraVars, cacheVars, running,
                   details_button, outputVars>>

\* one iteration of `for event in event_list`
HandleEvent ==
    /\ pc = "events" /\ ev_i <= Len(event_list)
    /\ ev_i' = ev_i + 1
    /\ LET event == event_list[ev_i]
           key == event.key
           win == ToggledWindow(FULLSCREEN)
       IN  IF event.type = "QUIT"
           THEN /\ running' = FALSE
                /\ UNCHANGED <<zoom, chunk_cache, SHOW_DETAILS, windowVars,
                               camera_x, camera_y>>
           ELSE IF event.type = "KEYDOWN" /\ key = "K_ESCAPE"
           THEN /\ running' = FALSE
                /\ UNCHANGED <<zoom, chunk_cache, SHOW_DETAILS, windowVars,
                               camera_x, camera_y>>
           ELSE IF event.type = "KEYDOWN" /\ key \in {"K_PLUS", "K_EQUALS"}
           THEN /\ zoom' = ZoomedIn(zoom)
                /\ chunk_cache' = ClearedOnZoom(chunk_cache)
                /\ UNCHANGED <<running, SHOW_DETAILS, windowVars,
                               camera_x, camera_y>>
           ELSE IF event.type = "KEYDOWN" /\ key = "K_MINUS"
           THEN /\ zoom' = ZoomedOut(zoom)
                /\ chunk_cache' = ClearedOnZoom(chunk_cache)
                /\ UNCHANGED <<running, SHOW_DETAILS, windowVars,
                               camera_x, camera_y>>
           ELSE IF event.type = "KEYDOWN" /\ key = "K_d"
           THEN /\ SHOW_DETAILS' = ~SHOW_DETAILS
                /\ UNCHANGED <<running, zoom, chunk_cache, windowVars,
                               camera_x, camera_y>>
           ELSE IF event.type = "KEYDOWN" /\ key = "K_F11"
           THEN /\ FULLSCREEN' = win.FULLSCREEN
                /\ WIDTH' = win.WIDTH
                /\ HEIGHT' = win.HEIGHT
                /\ camera_x' = Rescaled(camera_x, WIDTH, win.WIDTH)
                /\ camera_y' = Rescaled(camera_y, HEIGHT, win.HEIGHT)
                /\ UNCHANGED <<running, zoom, chunk_cache, SHOW_DETAILS,
                               screen_info>>
           ELSE IF event.type = "VIDEORESIZE" /\ ~FULLSCREEN
           THEN /\ WIDTH' = event.w
                /\ HEIGHT' = event.h
                /\ UNCHANGED <<running, zoom, chunk_cache, SHOW_DETAILS,
                               screen_info, FULLSCREEN, camera_x, camera_y>>
           ELSE UNCHANGED <<running, zoom, chunk_cache, SHOW_DETAILS,
                            windowVars, camera_x, camera_y>>
    /\ UNCHANGED <<searchVars,
                   lruVars, registryVars, resolveVars, pc, exit_status, chunks,
                   tile_cache, event_list, details_button, outputVars,
                   frames, inputs>>

\* after the event loop: details_button.update, the arrow keys held
\* (pygame.key.get_pressed()) and screen.fill (lines 623-644)
UpdateInput ==
    /\ pc = "events" /\ ev_i > Len(event_list)
    /\ \E keys \in SUBSET ArrowKeys,
          hover \in IF \E i \in 1..Len(event_list) :
                         event_list[i].type \in {"MOUSEBUTTONDOWN", "MOUSEBUTTONUP"}
                    THEN BOOLEAN ELSE {FALSE} :
         LET upd == ButtonUpdate(details_button, event_list, hover)
         IN  /\ inputs + Cardinality(keys) <= MaxInputs
             /\ inputs' = inputs + Cardinality(keys)
             /\ details_button' = upd.button
             /\ SHOW_DETAILS' = IF upd.changed THEN upd.button.active
                                ELSE SHOW_DETAILS
             /\ camera_x' = MovedX(camera_x, keys)
             /\ camera_y' = MovedY(camera_y, keys)
    /\ screen' = <<>>
    /\ pc' = "render"
    /\ UNCHANGED <<searchVars,
                   lruVars, registryVars, resolveVars, exit_status, windowVars,
                   chunks, zoom, cacheVars, running, eventVars, display, calls,
                   perf_monitor, frames>>

\* what the render step leaves behind (lines 683-734): st is the state after
\* the loop over sorted_chunks
FrameRendered(st) ==
    /\ tile_cache' = st.tile_cache
    /\ chunk_cache' = st.chunk_cache
    /\ calls' = st.calls
    /\ IF st.exc # ""
       THEN /\ pc' = "exited" /\ exit_status' = 1
            /\ screen' = st.screen
            /\ UNCHANGED perf_monitor
       ELSE /\ pc' = "flip"
            /\ screen' = st.screen \o Overlay
            /\ perf_monitor' =
                   IF SHOW_DETAILS
                   THEN [visible_tiles |-> st.visible_tiles,
                         total_tiles |-> st.total_tiles]
                   ELSE perf_monitor
            /\ UNCHANGED exit_status

\* the render step: the loop over sorted_chunks, the statistics and the
\* overlay (lines 646-734); an exception raised by get_tile_image ends the
\* program
RenderFrame ==
    /\ pc = "render"
    /\ FrameRendered(RenderChunks(RenderStart, sorted_chunks))
    /\ UNCHANGED <<searchVars,
                   lruVars, registryVars, resolveVars, windowVars, SHOW_DETAILS,
                   chunks, cameraVars, running, eventVars, details_button,
                   display, frames, inputs>>

\* pygame.display.flip() and the test of the while loop
FlipLoopsOn ==
    /\ pc = "flip"
    /\ display' = screen
    /\ pc' = "loop"
    /\ UNCHANGED <<searchVars,
                   lruVars, registryVars, resolveVars, exit_status, windowVars,
                   SHOW_DETAILS, chunks, cameraVars, cacheVars, running,
                   eventVars, details_button, screen, calls, perf_monitor,
                   frames, inputs>>

Flip ==
    /\ pc = "flip"
    /\ display' = screen
    /\ pc' = IF running THEN "loop" ELSE "cleanup"
    /\ UNCHANGED <<searchVars,
                   lruVars, registryVars, resolveVars, exit_status, windowVars,
                   SHOW_DETAILS, chunks, cameraVars, cacheVars, running,
                   eventVars, details_button, screen, calls, perf_monitor,
                   frames, inputs>>

\* pygame.quit(); sys.exit()
Cleanup ==
    /\ pc = "cleanup"
    /\ pc' = "exited" /\ exit_status' = 0
    /\ UNCHANGED <<searchVars,
                   lruVars, registryVars, resolveVars, windowVars, SHOW_DETAILS,
                   chunks, cameraVars, cacheVars, running, eventVars,
                   details_button, outputVars, frames, inputs>>

Next ==
    \/ LoadMap
    \/ GetEvents
    \/ HandleEvent
    \/ UpdateInput
    \/ RenderFrame
    \/ Flip
    \/ Cleanup

Spec == Init /\ [][Next]_vars

(***************************************************************************)
(* SpecZoom: the two zoom branches of the event loop (lines 583-590) and   *)
(* the render step (lines 644-734) on their own, from the state in which   *)
(* the program enters the loop, for sequences of zoom keys long enough to  *)
(* reach both ends of the range and every double in ZoomTable.  Any number *)
(* of zoom keys can precede a render step, as the events of one or more    *)
(* frames; no other event arrives and no arrow key is held.                *)
(***************************************************************************)
\* number of zoom key events in one behaviour
MaxZoomKeys == 28
\* number of render steps in one behaviour
MaxZoomFrames == 1

ZoomKeys == {"K_PLUS", "K_EQUALS", "K_MINUS"}

InitZoom ==
    /\ root = ThreeLayerMap
    /\ RegistryLoaded
    /\ NoCall
    /\ NoSearch
    /\ lru = NewLRUCache(1) /\ lastOp = NoOp /\ recency = <<>>
    /\ pc = "events" /\ exit_status = -1
    /\ screen_info \in ScreenInfos
    /\ WIDTH = Windowed(screen_info.current_w)
    /\ HEIGHT = Windowed(screen_info.current_h)
    /\ FULLSCREEN = FALSE /\ SHOW_DETAILS = FALSE
    /\ chunks = LoadChunks(root.layers, Len(root.layers))
    /\ camera_x = InitialCameraX(chunks[1], WIDTH)
    /\ camera_y = InitialCameraY(chunks[1], HEIGHT)
    /\ zoom = ZOOM_INITIAL
    /\ tile_cache = NewLRUCache(MAX_CACHE_SIZE)
    /\ chunk_cache = NewLRUCache(PRE_RENDERED_CHUNKS)
    /\ running = TRUE
    /\ event_list = <<>> /\ ev_i = 1
    /\ details_button = [active |-> FALSE, hover |-> FALSE, clicked |-> FALSE]
    /\ perf_monitor = [visible_tiles |-> 0, total_tiles |-> 0]
    /\ screen = <<>> /\ display = <<>> /\ calls = <<>>
    /\ frames = 0 /\ inputs = 0

\* a KEYDOWN event of a zoom key is handled
ZoomKeyDownClearsOnChange(key) ==
    /\ inputs < MaxZoomKeys
    /\ inputs' = inputs + 1
    /\ zoom' = IF key \in {"K_PLUS", "K_EQUALS"} THEN ZoomedIn(zoom)
               ELSE ZoomedOut(zoom)
    /\ chunk_cache' = IF zoom' # zoom THEN ClearedOnZoom(chunk_cache)
                      ELSE chunk_cache
    /\ UNCHANGED <<searchVars,
                   lruVars, registryVars, resolveVars, pc, exit_status,
                   windowVars, SHOW_DETAILS, chunks, camera_x, camera_y,
                   tile_cache, running, eventVars, details_button, outputVars,
                   frames>>

ZoomKeyDown(key) ==
    /\ inputs < MaxZoomKeys
    /\ inputs' = inputs + 1
    /\ zoom' = IF key \in {"K_PLUS", "K_EQUALS"} THEN ZoomedIn(zoom)
               ELSE ZoomedOut(zoom)
    /\ chunk_cache' = ClearedOnZoom(chunk_cache)
    /\ UNCHANGED <<searchVars,
                   lruVars, registryVars, resolveVars, pc, exit_status,
                   windowVars, SHOW_DETAILS, chunks, camera_x, camera_y,
                   tile_cache, running, eventVars, details_button, outputVars,
                   frames>>

\* what the rest of a frame leaves behind when no key is held: st is the
\* state after the loop over sorted_chunks; the frame is drawn and shown
ZoomFrameShown(st) ==
    /\ tile_cache' = st.tile_cache
    /\ chunk_cache' = st.chunk_cache
    /\ calls' = st.calls
    /\ screen' = st.screen \o Overlay
    /\ display' = st.screen \o Overlay

\* the render step and the flip of a frame, at the zoom the keys left
ZoomRender ==
    /\ frames < MaxZoomFrames
    /\ frames' = frames + 1
    /\ ZoomFrameShown(RenderChunks(RenderStart, sorted_chunks))
    /\ UNCHANGED <<searchVars,
                   lruVars, registryVars, resolveVars, pc, exit_status,
                   windowVars, SHOW_DETAILS, chunks, cameraVars, running,
                   eventVars, details_button, perf_monitor, inputs>>

NextZoom ==
    \/ \E key \in ZoomKeys : ZoomKeyDown(key)
    \/ ZoomRender

SpecZoom == InitZoom /\ [][NextZoom]_vars

(***************************************************************************)
(* SpecLRU: one LRUCache(capacity), capacity in 1..MaxCapacity, and any    *)
(* sequence of get, put and clear calls on it.                             *)
(***************************************************************************)
\* the history of touches after key is stored or hit
Touch(h, key) == Append(Without(h, key), key)

InitLRU ==
    /\ \E capacity \in 1..MaxCapacity : lru = NewLRUCache(capacity)
    /\ lastOp = NoOp
    /\ recency = <<>>
    /\ NoRegistry
    /\ NoCall
    /\ NoSearch
    /\ NoProgram

CallGet(key) ==
    /\ lru.hits + lru.misses < MaxGets
    /\ LET r == LRUGet(lru, key)
       IN  /\ lru' = r.self
           /\ lastOp' = [op |-> "get", key |-> key,
                         present |-> InCache(lru, key), ret |-> r.ret]
           /\ recency' = IF InCache(lru, key) THEN Touch(recency, key)
                         ELSE recency
    /\ UNCHANGED <<registryVars, resolveVars, frameVars, searchVars>>

CallPut(key, value) ==
    /\ lru' = LRUPut(lru, key, value)
    /\ lastOp' = [op |-> "put", key |-> key,
                  present |-> InCache(lru, key), ret |-> None]
    /\ recency' = Touch(recency, key)
    /\ UNCHANGED <<registryVars, resolveVars, frameVars, searchVars>>

CallClear ==
    /\ lru' = LRUClear(lru)
    /\ lastOp' = [op |-> "clear", key |-> "", present |-> FALSE, ret |-> None]
    /\ UNCHANGED <<recency, registryVars, resolveVars, frameVars,
                 searchVars>>

NextLRU ==
    \/ \E key \in Keys : CallGet(key)
    \/ \E key \in Keys, value \in Values : CallPut(key, value)
    \/ CallClear

SpecLRU == InitLRU /\ [][NextLRU]_vars

(***************************************************************************)
(* Properties of LRUCache, checked under SpecLRU                           *)
(***************************************************************************)
KeySet(c) == {c.cache[i].key : i \in 1..Len(c.cache)}

\* the least-recently-used key of a non-empty cache according to the history
\* of calls: the stored key whose last put or hitting get is oldest
OldestTouched(c, h) ==
    h[CHOOSE i \in 1..Len(h) :
         /\ h[i] \in KeySet(c)
         /\ \A j \in 1..(i - 1) : h[j] \notin KeySet(c)]

\* the entries of the keys in S keep their values from c to d
SameValues(c, d, S) == \A k \in S : CacheValue(c, k) = CacheValue(d, k)

\* C1: a put of a key that is not stored, made while the cache holds capacity
\* entries, removes exactly the least-recently-used entry (the stored key
\* whose last put or hitting get is oldest) and inserts the new key; a put
\* made while fewer than capacity entries are held removes nothing.
Thm_C1_PutEvictsLeastRecentlyUsed ==
    [][(lastOp'.op = "put" /\ ~lastOp'.present) =>
          LET k == lastOp'.key
          IN  IF Len(lru.cache) >= lru.capacity
              THEN /\ KeySet(lru') =
                        (KeySet(lru) \ {OldestTouched(lru, recency)}) \cup {k}
                   /\ Len(lru'.cache) = Len(lru.cache)
                   /\ SameValues(lru, lru', KeySet(lru') \ {k})
              ELSE /\ KeySet(lru') = KeySet(lru) \cup {k}
                   /\ Len(lru'.cache) = Len(lru.cache) + 1
                   /\ SameValues(lru, lru', KeySet(lru))]_vars

\* a full cache of capacity >= 2 has just evicted on a put of a new key, in a
\* run where a get has hit
Wit_C1_EvictionAfterHit ==
    /\ lastOp.op = "put" /\ ~lastOp.present
    /\ lru.capacity >= 2
    /\ Len(lru.cache) = lru.capacity
    /\ lru.hits >= 1
    /\ \E k \in Range(recency) : ~InCache(lru, k)

\* C2: a get that hits and every put leave their key last in the eviction
\* order, with the other remaining keys in their previous relative order; a
\* get that misses changes neither the contents nor the order.
Thm_C2_TouchedKeyIsMostRecent ==
    [][/\ (lastOp'.op = "put" \/ (lastOp'.op = "get" /\ lastOp'.present)) =>
            LET k == lastOp'.key
                before == CacheKeys(lru)
                rest == SelectSeq(before,
                                  LAMBDA j : j # k /\ InCache(lru', j))
            IN  /\ Len(lru'.cache) >= 1
                /\ CacheKeys(lru') = Append(rest, k)
       /\ (lastOp'.op = "get" /\ ~lastOp'.present) =>
            lru'.cache = lru.cache]_vars

\* a get hit a key that was not last and moved it behind a key that stays
Wit_C2_HitMovedKeyToEnd ==
    /\ lastOp.op = "get" /\ lastOp.present
    /\ Len(lru.cache) >= 2
    /\ CacheKeys(lru)[Len(lru.cache)] = lastOp.key
    /\ recency[Len(recency)] = lastOp.key
    /\ lru.hits = 1 /\ lru.misses = 0

\* C3: the number of stored entries never exceeds the capacity.
Thm_C3_SizeWithinCapacity == Len(lru.cache) <= lru.capacity

\* the cache is full and more distinct keys than its capacity have been put
Wit_C3_FullAfterOverflow ==
    /\ Len(lru.cache) = lru.capacity
    /\ Cardinality(Range(recency)) > lru.capacity
    /\ lastOp.op = "put"

\* C4: a get of a stored key adds exactly 1 to hits and leaves misses, a get
\* of a missing key adds exactly 1 to misses and leaves hits; put and clear
\* change neither counter; no counter ever decreases.
Thm_C4_CountersExact ==
    [][/\ lru'.hits >= lru.hits /\ lru'.misses >= lru.misses
       /\ (lastOp'.op = "get" /\ InCache(lru, lastOp'.key)) =>
             (lru'.hits = lru.hits + 1 /\ lru'.misses = lru.misses)
       /\ (lastOp'.op = "get" /\ ~InCache(lru, lastOp'.key)) =>
             (lru'.misses = lru.misses + 1 /\ lru'.hits = lru.hits)
       /\ lastOp'.op \in {"put", "clear"} =>
             (lru'.hits = lru.hits /\ lru'.misses = lru.misses)]_vars

\* one put of a key followed by gets of it: several hits and no miss, and a
\* state with hits and a miss both counted
Wit_C4_HitsAndMissesCounted ==
    /\ lastOp.op = "get" /\ lastOp.present
    /\ lru.hits >= 2 /\ lru.misses >= 1

(***************************************************************************)
(* Properties of get_tile_image, checked under SpecResolve                 *)
(***************************************************************************)
\* the first gids of the <tileset> elements declared in the document
DeclaredFirstGids == {root.tilesets[i].firstgid : i \in 1..Len(root.tilesets)}

\* C9: for the tilesets declared in the document and a real id >= 1,
\* get_tile_image selects the tileset with the greatest first gid <= the real
\* id, and returns default_fallback when the real id is below every first gid.
Cex_C9_SelectsGreatestDeclaredFirstGid ==
    gid_arg.lo >= 1 =>
        LET candidates == {f \in DeclaredFirstGids : f <= gid_arg.lo}
        IN  IF candidates = {}
            THEN resolved.ret = default_fallback /\ resolved.tileset_gid = 0
            ELSE resolved.tileset_gid = SetMax(candidates)

\* C10: for a reference with low 29 bits >= 1 and any combination of the
\* three flip flags, get_tile_image(id | flags) selects the same tileset and
\* returns the same atlas sub-rectangle, or the same fallback, as
\* get_tile_image(id).
Thm_C10_FlipBitInvariance ==
    gid_arg.lo >= 1 =>
        LET plain == get_tile_image(Gid(0, gid_arg.lo))
        IN  /\ resolved.tileset_gid = plain.tileset_gid
            /\ resolved.ret = plain.ret
            /\ resolved.exc = plain.exc

\* a call with two flags set returned a sub-rectangle of an atlas that is
\* not its first tile
Wit_C10_FlaggedIdResolvedInAtlas ==
    /\ gid_arg.hi = FLIPPED_HORIZONTALLY_FLAG + FLIPPED_DIAGONALLY_FLAG
    /\ gid_arg.lo >= 1
    /\ resolved.ret.kind = "subsurface"
    /\ resolved.ret.x > 0
    /\ resolved.tileset_gid = 5

\* C11: for every registry the loader builds (columns = 0 included) and
\* every non-zero cell value, get_tile_image raises nothing and returns an
\* image, never None.
Cex_C11_ResolutionNeverRaises ==
    GidPositive(gid_arg) => (resolved.exc = "" /\ resolved.ret # NoImage)

\* the real id of the last call, and its index in the selected tileset
LastRealGid == RealGid(gid_arg)
LastLocalId == LastRealGid - resolved.tileset_gid

\* the last call selected a tileset whose atlas was loaded
AtlasSelected ==
    /\ resolved.tileset_gid # 0
    /\ ~tileset_images[resolved.tileset_gid].is_fallback

\* the cell of the atlas grid (rows of `columns` tiles, row-major) that holds
\* the tile with the local index of the last call lies inside the atlas
CellInsideAtlas ==
    LET t == tileset_images[resolved.tileset_gid]
    IN  /\ t.columns > 0
        /\ ((LastLocalId % t.columns) + 1) * t.tilewidth <= t.image.w
        /\ ((LastLocalId \div t.columns) + 1) * t.tileheight <= t.image.h

\* C12: when the real id falls inside the range of the selected tileset and
\* a sub-rectangle of its atlas is returned, the sub-rectangle has the size of
\* a tile and its origin is the cell (local mod columns, local div columns) of
\* the atlas grid: local = row * columns + column with column < columns; for
\* tilesets A (first gid 1) and B (first gid 5) of 4 tiles in 2 columns of
\* 16x16, get_tile_image(6) selects B and returns the sub-rectangle at (16, 0).
Thm_C12_SubRectangleOrigin ==
    /\ (GidPositive(gid_arg) /\ resolved.ret.kind = "subsurface") =>
          LET t == tileset_images[resolved.tileset_gid]
              column == resolved.ret.x \div t.tilewidth
              row == resolved.ret.y \div t.tileheight
          IN  /\ AtlasSelected
              /\ LastLocalId < t.tilecount
              /\ resolved.ret.id = t.image.id
              /\ resolved.ret.w = t.tilewidth /\ resolved.ret.h = t.tileheight
              /\ resolved.ret.x = column * t.tilewidth
              /\ resolved.ret.y = row * t.tileheight
              /\ column < t.columns
              /\ LastLocalId = row * t.columns + column
    /\ (/\ GidPositive(gid_arg) /\ resolved.exc = "" /\ AtlasSelected
        /\ LastLocalId < tileset_images[resolved.tileset_gid].tilecount
        /\ CellInsideAtlas)
          => resolved.ret.kind = "subsurface"
    /\ (root.tilesets = TwoLayerMap.tilesets /\ LastRealGid = 6) =>
          /\ resolved.tileset_gid = 5
          /\ resolved.ret = Subsurface(LoadedImage(1, root.tilesets[2]),
                                       16, 0, 16, 16)

\* get_tile_image(6) was called on the registry of tilesets A and B
Wit_C12_SixResolvedInB ==
    /\ root.tilesets = TwoLayerMap.tilesets
    /\ gid_arg = Gid(0, 6)
    /\ resolved.tileset_gid = 5
    /\ resolved.ret.kind = "subsurface"
    /\ resolved.ret.x = 16 /\ resolved.ret.y = 0

\* C13: a real id that lies in the tile range [first gid, first gid + tile
\* count) of no registered tileset resolves to default_fallback; with A (first
\* gid 1, 4 tiles) and B (first gid 5, 4 tiles), get_tile_image(100) returns
\* default_fallback.
Cex_C13_BeyondEveryRangeIsGlobalFallback ==
    (/\ GidPositive(gid_arg)
     /\ \A f \in DOMAIN tileset_images :
           ~(f <= LastRealGid /\ LastRealGid < f + tileset_images[f].tilecount))
        => resolved.ret = default_fallback

\* C14: when a tileset is selected and the local index is not below its tile
\* count, or the sub-rectangle of the local index exceeds the atlas, the call
\* returns fallback_tiles[first gid] of that tileset and raises nothing;
\* default_fallback is returned only when no tileset was selected.
Thm_C14_AnomalySubstitutesOwnFallback ==
    GidPositive(gid_arg) =>
        /\ (/\ AtlasSelected
            /\ \/ LastLocalId >= tileset_images[resolved.tileset_gid].tilecount
               \/ /\ tileset_images[resolved.tileset_gid].columns > 0
                  /\ ~CellInsideAtlas)
              => /\ resolved.exc = ""
                 /\ resolved.tileset_gid \in DOMAIN fallback_tiles
                 /\ resolved.ret = fallback_tiles[resolved.tileset_gid]
                 /\ resolved.ret # default_fallback
        /\ resolved.ret = default_fallback => resolved.tileset_gid = 0
        /\ (resolved.tileset_gid = 0 /\ resolved.exc = "")
              => resolved.ret = default_fallback

\* a call whose local index is below the tile count but whose sub-rectangle
\* lies below the atlas returned the fallback tile of its tileset
Wit_C14_RectangleBeyondAtlas ==
    /\ GidPositive(gid_arg)
    /\ AtlasSelected
    /\ LastLocalId < tileset_images[resolved.tileset_gid].tilecount
    /\ tileset_images[resolved.tileset_gid].columns > 0
    /\ ~CellInsideAtlas
    /\ resolved.ret = fallback_tiles[resolved.tileset_gid]

\* the <tileset> elements of the document that have an <image> whose file
\* could not be found or decoded
FailedTilesets ==
    {n \in 1..Len(root.tilesets) :
        root.tilesets[n].has_image /\ ~root.tilesets[n].loadable}

\* the first gid f is declared by exactly one <tileset> of the document
DeclaredOnce(f) ==
    Cardinality({n \in 1..Len(root.tilesets) : root.tilesets[n].firstgid = f}) = 1

\* C21: a tileset whose atlas could not be loaded is registered under its
\* first gid as a fallback entry, and the registry never changes afterwards;
\* every call whose real id selects a fallback entry raises nothing and returns
\* the fallback tile kept for that first gid, whatever the local index and the
\* flags; for a first gid declared once this is the fallback tile created for
\* that tileset (from its tile size and its position in the document), never
\* a part of an atlas and never default_fallback.
Thm_C21_LoadFailureResolvedOncePermanently ==
    /\ [][UNCHANGED registryVars]_vars
    /\ [](\A n \in FailedTilesets :
             LET t == root.tilesets[n]
                 own == create_fallback_tile(t.tilewidth, t.tileheight, n - 1)
             IN  DeclaredOnce(t.firstgid) =>
                    /\ t.firstgid \in DOMAIN tileset_images
                    /\ tileset_images[t.firstgid].is_fallback
                    /\ tileset_images[t.firstgid].image = own
                    /\ fallback_tiles[t.firstgid] = own
                    /\ (GidPositive(gid_arg) /\ resolved.tileset_gid = t.firstgid)
                          => (resolved.exc = "" /\ resolved.ret = own))
    /\ []((/\ GidPositive(gid_arg)
            /\ resolved.tileset_gid # 0
            /\ tileset_images[resolved.tileset_gid].is_fallback)
              => /\ resolved.exc = ""
                 /\ resolved.ret = fallback_tiles[resolved.tileset_gid]
                 /\ resolved.ret.kind = "fallback_tile"
                 /\ resolved.ret # default_fallback)

\* a flagged reference two tiles above the first gid of a tileset whose atlas
\* failed to load, declared behind a loaded tileset, returned that tileset's
\* fallback tile
Wit_C21_FailedTilesetResolved ==
    /\ Len(root.tilesets) = 2
    /\ 2 \in FailedTilesets /\ 1 \notin FailedTilesets
    /\ root.tilesets[1].firstgid # root.tilesets[2].firstgid
    /\ gid_arg.hi = FLIPPED_VERTICALLY_FLAG
    /\ LastRealGid = root.tilesets[2].firstgid + 2
    /\ resolved.tileset_gid = root.tilesets[2].firstgid
    /\ resolved.ret = create_fallback_tile(16, 16, 1)

(***************************************************************************)
(* Properties of the frame loop, checked under Spec                        *)
(***************************************************************************)
\* a zoom key event of this frame has been handled
ZoomKeyHandled == \E j \in 1..(ev_i - 1) : IsZoomKey(event_list[j])

\* the chunk-cache key of the chunk with index ci in this frame
ChunkKey(ci) == <<chunks[ci].x, chunks[ci].y, current_effective_tile_size>>

\* every chunk-cache hit of this frame's render step returned a surface that
\* was stored earlier in the same render step
HitsAreOfThisFrame ==
    \A i \in 1..Len(calls) :
        (calls[i].fn = "chunk_cache.get" /\ calls[i].hit) =>
            \E j \in 1..(i - 1) :
                /\ calls[j].fn = "chunk_cache.put"
                /\ ChunkKey(calls[j].chunk) = ChunkKey(calls[i].chunk)

\* C5: a step that changes zoom leaves the chunk cache empty; once a zoom key
\* of a frame is handled the chunk cache stays empty until the frame's render
\* step, and no chunk-cache lookup of that render step returns an entry that
\* was stored before it.
Thm_C5_ChunkCacheEmptyAfterZoom ==
    /\ [][zoom' # zoom => LRULen(chunk_cache') = 0]_vars
    /\ []((pc \in {"events", "render"} /\ ZoomKeyHandled) =>
              LRULen(chunk_cache) = 0)
    /\ []((pc = "flip" /\ ZoomKeyHandled) => HitsAreOfThisFrame)

\* a frame after the first one is about to render at a changed zoom: the
\* chunk surfaces composited by the earlier frame are gone, the scaled tiles
\* are still cached
Wit_C5_ZoomedAfterRenderedFrame ==
    /\ pc = "render" /\ frames >= 2
    /\ ZoomKeyHandled
    /\ zoom # ZOOM_INITIAL
    /\ LRULen(chunk_cache) = 0
    /\ LRULen(tile_cache) > 0

\* the standard intersection test of the chunk's screen rectangle with the
\* viewport (0, 0, WIDTH, HEIGHT): the two rectangles share an area
PositiveOverlap(chunk) ==
    /\ BaseX(chunk) < WIDTH * UNIT
    /\ BaseX(chunk) + ChunkWidth(chunk) > 0
    /\ BaseY(chunk) < HEIGHT * UNIT
    /\ BaseY(chunk) + ChunkHeight(chunk) > 0

\* C6: a chunk whose screen rectangle has zero overlap with the viewport is
\* never passed to render_chunk_to_surface.
Cex_C6_ZeroOverlapNeverComposited ==
    pc = "flip" =>
        \A i \in 1..Len(calls) :
            calls[i].fn = "render_chunk_to_surface" =>
                PositiveOverlap(chunks[calls[i].chunk])

\* C7: the render step makes no call on behalf of a chunk that the culler
\* rejects, and it leaves tile_cache and chunk_cache (contents, order and
\* counters) exactly as rendering the list without the rejected chunks does.
Thm_C7_CulledChunksCauseNoCacheTraffic ==
    [][(pc = "render" /\ pc' = "flip") =>
          LET kept == SelectSeq(sorted_chunks, LAMBDA ci : Visible(chunks[ci]))
              without == RenderChunks(RenderStart, kept)
          IN  /\ \A i \in 1..Len(calls') : Visible(chunks[calls'[i].chunk])
              /\ tile_cache' = without.tile_cache
              /\ chunk_cache' = without.chunk_cache]_vars

\* a frame was rendered in which a chunk was rejected whose surface is in
\* the chunk cache, while another chunk was looked up
Wit_C7_CachedChunkCulled ==
    /\ pc = "flip"
    /\ Len(calls) > 0
    /\ \E ci \in 1..Len(chunks) :
          ~Visible(chunks[ci]) /\ InCache(chunk_cache, ChunkKey(ci))

\* the calls of a render step made on behalf of the chunk with index ci
CallsOf(log, ci) == SelectSeq(log, LAMBDA c : c.chunk = ci)

\* C15: when a render step composites a chunk whose key is in the chunk cache
\* (stored by an earlier call at the same effective tile size, no zoom event
\* and no eviction since), render_chunk_to_surface makes the chunk-cache
\* lookup and nothing else (no get_tile_image, no tile-cache access, no
\* chunk-cache insertion), and the surface it returns, which is blitted, is
\* the stored one; the entry stays as it was.
Thm_C15_SecondCompositeReturnsCachedSurface ==
    [][(pc = "render" /\ pc' = "flip") =>
          \A ci \in 1..Len(chunks) :
              (Visible(chunks[ci]) /\ InCache(chunk_cache, ChunkKey(ci))) =>
                  LET mine == CallsOf(calls', ci)
                      stored == CacheValue(chunk_cache, ChunkKey(ci))
                  IN  /\ Len(mine) = 2
                      /\ mine[1].fn = "render_chunk_to_surface"
                      /\ mine[2].fn = "chunk_cache.get" /\ mine[2].hit
                      /\ \E k \in 1..Len(screen') :
                            /\ screen'[k].kind = "chunk"
                            /\ screen'[k].chunk = ci
                            /\ screen'[k].surface = stored
                      /\ CacheValue(chunk_cache', ChunkKey(ci)) = stored]_vars

\* a later frame composited, at the tile size of the frame before, a chunk
\* that holds tiles: its lookup hit and nothing was stored for it in this
\* render step
Wit_C15_CompositedTwiceAtSameSize ==
    /\ pc = "flip" /\ frames >= 2
    /\ \E ci \in 1..Len(chunks) :
          /\ PositiveCells(chunks[ci]) > 0
          /\ Len(CallsOf(calls, ci)) = 2
          /\ CallsOf(calls, ci)[2].fn = "chunk_cache.get"
          /\ CallsOf(calls, ci)[2].hit
          /\ \A i \in 1..Len(calls) : calls[i].fn # "chunk_cache.put"

\* C16: after any sequence of zoom-in and zoom-out keys from 1.0, zoom is one
\* of the doubles of ZoomTable, which lie between its first row, 0.2, and its
\* last row, 2.0; it is 0.2 to 2.0 in tenths, and the effective tile size
\* int(SCALED_TILE_SIZE * zoom) is a positive integer, from int(16 * 0.2) to
\* int(16 * 2.0).
Thm_C16_ZoomClamped ==
    /\ zoom \in 1..Len(ZoomTable)
    /\ ZoomTable[zoom].tenths >= 2
    /\ ZoomTable[zoom].tenths <= 20
    /\ current_effective_tile_size >= 1
    /\ current_effective_tile_size >= (SCALED_TILE_SIZE * 2) \div 10
    /\ current_effective_tile_size <= SCALED_TILE_SIZE * 2

\* more zoom-out keys were handled than it takes to get from 1.0 to 0.2, and
\* zoom is 0.2
Wit_C16_ZoomedOutAtLowerBound ==
    /\ zoom = 1
    /\ inputs >= 9
    /\ current_effective_tile_size = 3

\* the indices of the chunks blitted on the screen, in the order of the blits;
\* chunks holds the chunks layer by layer in the order of the document, so a
\* smaller index is an earlier declaration
BlitOrder(scr) ==
    LET blits == SelectSeq(scr, LAMBDA b : b.kind = "chunk")
    IN  [i \in 1..Len(blits) |-> blits[i].chunk]

\* C17: in every frame the chunks are blitted in the order of their
\* declaration in the document: every chunk of an earlier declared layer
\* before any chunk of a later declared layer, the chunks of one layer in
\* their declared order.
Cex_C17_DrawnInDeclaredOrder ==
    pc = "flip" =>
        \A i, j \in 1..Len(BlitOrder(screen)) :
            i < j => BlitOrder(screen)[i] < BlitOrder(screen)[j]

\* what was drawn is a complete frame of the current view: every chunk the
\* culler accepts, in the order of sorted_chunks, then the overlay
CompleteFrame(scr) ==
    /\ BlitOrder(scr) = SelectSeq(sorted_chunks, LAMBDA ci : Visible(chunks[ci]))
    /\ Len(scr) = Len(BlitOrder(scr)) + Len(Overlay)
    /\ SubSeq(scr, Len(BlitOrder(scr)) + 1, Len(scr)) = Overlay

\* the number of steps the program is away from its exit once running is
\* false: the events left in event_list, then the input update, the render
\* step, the flip and the cleanup
StepsToExit ==
    CASE pc = "events" -> 5 + Len(event_list) - ev_i
      [] pc = "render" -> 3
      [] pc = "flip" -> 2
      [] pc = "cleanup" -> 1
      [] OTHER -> 0

\* C18: once a quit event (QUIT or ESC) is handled, running stays false, no
\* further frame is started and the program never returns to the top of the
\* loop; every step it takes brings it nearer to its exit with status 0, and
\* what is on the display then is the complete frame in which the quit was
\* seen.
Thm_C18_QuitStopsLoopCleanly ==
    /\ [][~running => (/\ ~running'
                       /\ frames' = frames
                       /\ StepsToExit' < StepsToExit)]_vars
    /\ [](~running => pc \in {"events", "render", "flip", "cleanup", "exited"})
    /\ []((~running /\ pc \in {"cleanup", "exited"}) =>
             (display = screen /\ CompleteFrame(display)))
    /\ []((~running /\ pc = "exited") => exit_status = 0)

\* the program has exited after a frame, not the first one, whose first event
\* was a quit that another event followed; the frame shows chunks
Wit_C18_QuitFollowedByEvent ==
    /\ pc = "exited" /\ exit_status = 0 /\ ~running
    /\ frames >= 2
    /\ Len(event_list) = 2
    /\ event_list[1].type = "QUIT"
    /\ Len(BlitOrder(display)) >= 1

\* the loader has built the registry and the chunk list of the document
MapLoaded ==
    /\ root.wellformed
    /\ RegistryLoaded
    /\ chunks = LoadChunks(root.layers, Len(root.layers))

\* C19: when the try block of the loader raises (the document does not parse,
\* or a value the loader converts is malformed), the program exits with status
\* 1 from the loader: no frame is ever started and nothing is drawn or
\* shown; the frame loop is entered only with the registry and the chunk list
\* completely loaded.
Thm_C19_LoadErrorIsFatal ==
    /\ [][(pc = "load" /\ ~root.wellformed) =>
             (pc' = "exited" /\ exit_status' = 1)]_vars
    /\ [](~root.wellformed =>
             /\ pc \in {"load", "exited"}
             /\ frames = 0
             /\ screen = <<>> /\ display = <<>> /\ calls = <<>>
             /\ chunks = <<>>)
    /\ []((pc \in {"loop", "events", "render", "flip", "cleanup"} \/ frames >= 1)
             => MapLoaded)

\* the loader raised and the program has exited with status 1
Wit_C19_ExitedFromLoader ==
    /\ ~root.wellformed
    /\ pc = "exited" /\ exit_status = 1
    /\ frames = 0

\* what a render step started in this state would draw and leave in the
\* caches if SHOW_DETAILS were show_details: the chunk blits, the calls made,
\* tile_cache and chunk_cache (contents, order, counters) and the exception
\* raised, if any
RenderOutput(show_details) ==
    LET st == RenderChunks([RenderStart EXCEPT !.SHOW_DETAILS = show_details],
                           sorted_chunks)
    IN  [screen |-> st.screen, calls |-> st.calls, exc |-> st.exc,
         tile_cache |-> st.tile_cache, chunk_cache |-> st.chunk_cache]

\* the chunk blits on the screen: the screen without the overlay
ChunkBlits(scr) == SelectSeq(scr, LAMBDA b : b.kind = "chunk")

\* C20: from every state in which the program starts a render step, the
\* render step with the details switched on and the render step with the
\* details switched off draw the same chunk blits (chunks, positions,
\* surfaces), make the same calls and leave the same tile_cache and
\* chunk_cache (contents, recency order, hit and miss counters); and the
\* render step the program takes draws and leaves exactly that.
Thm_C20_TelemetryDoesNotAlterRendering ==
    [][(pc = "render" /\ pc' = "flip") =>
          LET on == RenderOutput(TRUE)
              off == RenderOutput(FALSE)
          IN  /\ on = off
              /\ ChunkBlits(screen') = off.screen
              /\ calls' = off.calls
              /\ tile_cache' = off.tile_cache
              /\ chunk_cache' = off.chunk_cache]_vars

\* a frame after the first one was rendered with the details switched on: the
\* tile statistics were computed and chunks were blitted
Wit_C20_RenderedWithDetails ==
    /\ pc = "flip" /\ frames >= 2
    /\ SHOW_DETAILS
    /\ perf_monitor.visible_tiles > 0
    /\ Len(ChunkBlits(screen)) >= 2

\* the cells of a chunk that hold a value > 0, as cell numbers (row-major,
\* from 1), in the order of the two for loops
PositiveCellSeq(chunk) ==
    SelectSeq([k \in 1..(Len(chunk.data) * chunk.width) |-> k],
              LAMBDA k : GidPositive(chunk.data[((k - 1) \div chunk.width) + 1]
                                               [((k - 1) % chunk.width) + 1]))

\* the composite of the grid of the chunk with index ci at tile size `size`:
\* a surface of the chunk's size in tiles times `size`, with the image of
\* every cell that holds a value > 0, scaled to `size`, at (x * size, y * size)
OwnComposite(ci, size) ==
    LET chunk == chunks[ci]
        cells == PositiveCellSeq(chunk)
    IN  [kind |-> "chunk", w |-> chunk.width * size, h |-> chunk.height * size,
         blits |-> [i \in 1..Len(cells) |->
             LET x == (cells[i] - 1) % chunk.width
                 y == (cells[i] - 1) \div chunk.width
             IN  [tile |-> ScaledTile(get_tile_image(chunk.data[y + 1][x + 1]).ret,
                                      size),
                  x |-> x * size, y |-> y * size]]]

\* the chunks whose chunk-cache lookup missed in the render step that made
\* the calls of log
Missed(log) ==
    {log[i].chunk : i \in {j \in 1..Len(log) :
                              log[j].fn = "chunk_cache.get" /\ ~log[j].hit}}

\* C22: every surface stored in chunk_cache, in every state, is the complete
\* composite of a chunk with the key's origin at the key's tile size; when a
\* render step misses on a chunk, the calls made for the chunk end with the
\* one chunk_cache.put of the chunk, all its tile blits come before it and
\* are one per cell holding a value > 0, in row-major order, and the surface
\* then stored under (x, y, tile size) and blitted for the chunk is its
\* complete composite; every chunk surface on the screen after a render step
\* is the complete composite of a chunk with that origin.
Thm_C22_CompositionAllOrNothing ==
    /\ \A key \in KeySet(chunk_cache) :
          \E ci \in 1..Len(chunks) :
              /\ chunk_key(chunks[ci], key[3]) = key
              /\ CacheValue(chunk_cache, key) = OwnComposite(ci, key[3])
    /\ pc = "flip" =>
          /\ \A ci \in Missed(calls) :
                LET mine == CallsOf(calls, ci)
                    tile_blits == SelectSeq(mine,
                                      LAMBDA c : c.fn = "chunk_surface.blit")
                    cells == PositiveCellSeq(chunks[ci])
                IN  /\ mine[Len(mine)].fn = "chunk_cache.put"
                    /\ \A i \in 1..(Len(mine) - 1) : mine[i].fn # "chunk_cache.put"
                    /\ Len(tile_blits) = Len(cells)
                    /\ \A i \in 1..Len(cells) :
                          tile_blits[i].y * chunks[ci].width + tile_blits[i].x + 1
                              = cells[i]
                    /\ InCache(chunk_cache, ChunkKey(ci))
                    /\ CacheValue(chunk_cache, ChunkKey(ci)) =
                           OwnComposite(ci, current_effective_tile_size)
                    /\ \E k \in 1..Len(screen) :
                          /\ screen[k].kind = "chunk"
                          /\ screen[k].chunk = ci
                          /\ screen[k].surface =
                                 OwnComposite(ci, current_effective_tile_size)
          /\ \A k \in 1..Len(screen) :
                screen[k].kind = "chunk" =>
                    \E cj \in 1..Len(chunks) :
                        /\ ChunkKey(cj) = ChunkKey(screen[k].chunk)
                        /\ screen[k].surface =
                               OwnComposite(cj, current_effective_tile_size)

\* a frame after a zoom change missed on a chunk that holds two cells with a
\* value > 0 and stored its composite of two tiles
Wit_C22_TwoTileChunkComposited ==
    /\ pc = "flip" /\ frames >= 2 /\ zoom # ZOOM_INITIAL
    /\ \E ci \in Missed(calls) :
          /\ Len(PositiveCellSeq(chunks[ci])) = 2
          /\ Len(CacheValue(chunk_cache, ChunkKey(ci)).blits) = 2

\* C28: after every render step, the surface blitted for every visible chunk
\* of every layer is the composite of that chunk's own grid at the current
\* effective tile size, also when chunks of different layers have the same
\* origin.
Cex_C28_BlittedSurfaceIsOwnComposite ==
    pc = "flip" =>
        \A k \in 1..Len(screen) :
            screen[k].kind = "chunk" =>
                screen[k].surface =
                    OwnComposite(screen[k].chunk, current_effective_tile_size)

\* the event the for loop is about to handle is a zoom key
HandlingZoomKey ==
    pc = "events" /\ ev_i <= Len(event_list) /\ IsZoomKey(event_list[ev_i])

\* call j of log is a tile_cache.put that follows, in one get_scaled_tile
\* call, a tile_cache.get that missed on the same key and get_tile_image
TilePutAfterMiss(log, j) ==
    /\ j >= 3
    /\ log[j - 2].fn = "tile_cache.get" /\ ~log[j - 2].hit
    /\ log[j - 1].fn = "get_tile_image"
    /\ \A i \in {j - 2, j - 1} :
          /\ log[i].gid = log[j].gid
          /\ log[i].chunk = log[j].chunk
          /\ log[i].x = log[j].x /\ log[i].y = log[j].y

\* call j of log is a chunk_cache.put that follows, in one
\* render_chunk_to_surface call, a chunk_cache.get that missed on the chunk
\* and the tile blits of the chunk
ChunkPutAfterMiss(log, j) ==
    \E i \in 1..(j - 1) :
        /\ log[i].fn = "chunk_cache.get" /\ ~log[i].hit
        /\ \A m \in i..j : log[m].chunk = log[j].chunk
        /\ Cardinality({m \in i..j : log[m].fn = "chunk_surface.blit"}) =
              PositiveCells(chunks[log[j].chunk])

Thm_C24_NoHistoricalSizesInChunkCache ==
    \A key \in KeySet(chunk_cache) : key[3] = current_effective_tile_size

\* a render step is about to look up chunks in a chunk cache that was
\* filled after a zoom change, while tile_cache still holds the scaled tiles
\* of the earlier size
Wit_C24_LookupAfterZoomAndRefill ==
    /\ pc = "render" /\ frames = 3
    /\ zoom # ZOOM_INITIAL
    /\ LRULen(chunk_cache) >= 2
    /\ \E k1, k2 \in KeySet(tile_cache) : k1[2] # k2[2]

\* the positions on the screen of the blits of the chunk with index ci
BlitsOf(scr, ci) ==
    {k \in 1..Len(scr) : scr[k].kind = "chunk" /\ scr[k].chunk = ci}

\* C25: after every render step, every chunk whose screen rectangle shares
\* an area with the viewport was looked up in chunk_cache exactly once,
\* composited and stored if the lookup missed, and blitted exactly once, at
\* (base_x, base_y), with the surface that chunk_cache holds under its key.
Thm_C25_NoVisibleChunkSkipped ==
    pc = "flip" =>
        \A ci \in 1..Len(chunks) :
            PositiveOverlap(chunks[ci]) =>
                LET mine == CallsOf(calls, ci)
                    gets == {i \in 1..Len(mine) : mine[i].fn = "chunk_cache.get"}
                    puts == {i \in 1..Len(mine) : mine[i].fn = "chunk_cache.put"}
                IN  /\ Cardinality(gets) = 1
                    /\ \A i \in gets :
                          IF mine[i].hit THEN puts = {}
                          ELSE Cardinality(puts) = 1
                    /\ Cardinality(BlitsOf(screen, ci)) = 1
                    /\ \A k \in BlitsOf(screen, ci) :
                          /\ screen[k].x = BaseX(chunks[ci])
                          /\ screen[k].y = BaseY(chunks[ci])
                          /\ InCache(chunk_cache, ChunkKey(ci))
                          /\ screen[k].surface =
                                 CacheValue(chunk_cache, ChunkKey(ci))

\* a frame drew a chunk that lies partly left of or above the viewport,
\* while another chunk was culled
Wit_C25_PartlyVisibleChunkDrawn ==
    /\ pc = "flip"
    /\ \E ci, cj \in 1..Len(chunks) :
          /\ PositiveOverlap(chunks[ci])
          /\ (BaseX(chunks[ci]) < 0 \/ BaseY(chunks[ci]) < 0)
          /\ BlitsOf(screen, ci) # {}
          /\ BlitsOf(screen, cj) = {}

\* baseTileSize * mapScale * zoom, not truncated, in 1/UNIT pixel, for zoom a
\* number of tenths
UntruncatedPixelSize == (TILE_SIZE * UNIT * ZoomTable[zoom].tenths)
                            \div (MAP_SCALE_DIV * 10)

\* C26, as stated: after every render step every chunk surface on the screen
\* is at chunkTile * effectivePixelSize + pan + layerOffset * zoom in X and in
\* Y, with effectivePixelSize = baseTileSize * mapScale * zoom and layerOffset
\* the layer's offset as the loop scales it (offset * MAP_SCALE).
Cex_C26_PositionFromUntruncatedSize ==
    pc = "flip" =>
        \A k \in 1..Len(screen) :
            screen[k].kind = "chunk" =>
                LET chunk == chunks[screen[k].chunk]
                IN  /\ screen[k].x = chunk.x * UntruncatedPixelSize + camera_x
                                        + chunk.offset_x * ZoomTable[zoom].tenths
                    /\ screen[k].y = chunk.y * UntruncatedPixelSize + camera_y
                                        + chunk.offset_y * ZoomTable[zoom].tenths

\* C26, amended: after every render step every chunk surface on the screen
\* is at chunkTile * effectivePixelSize + pan + layerOffset * zoom in X and in
\* Y, where effectivePixelSize is the whole number of pixels
\* int(int(baseTileSize * mapScale) * zoom) for the zoom and pan of the frame
\* (it never exceeds baseTileSize * mapScale * zoom and is less than two
\* pixels below it), and the surface has that tile size.
Thm_C26_PositionFromTruncatedSize ==
    pc = "flip" =>
        LET size == ZoomTable[zoom].tile_size
            tenths == ZoomTable[zoom].tenths
        IN  /\ size * 10 <= SCALED_TILE_SIZE * tenths
            /\ SCALED_TILE_SIZE * tenths < (size + 2) * 10
            /\ \A k \in 1..Len(screen) :
                  screen[k].kind = "chunk" =>
                      LET chunk == chunks[screen[k].chunk]
                      IN  /\ screen[k].x = chunk.x * size * UNIT + camera_x
                                              + chunk.offset_x * tenths
                          /\ screen[k].y = chunk.y * size * UNIT + camera_y
                                              + chunk.offset_y * tenths
                          /\ screen[k].surface.w = chunk.width * size
                          /\ screen[k].surface.h = chunk.height * size

\* a frame after the first one drew, at a zoom for which 16 * zoom is not
\* whole, a chunk of a layer with an offset whose origin is not tile (0, 0)
Wit_C26_OffsetChunkAtFractionalSize ==
    /\ pc = "flip" /\ frames >= 2
    /\ ZoomTable[zoom].tile_size * 10 # SCALED_TILE_SIZE * ZoomTable[zoom].tenths
    /\ \E k \in 1..Len(screen) :
          /\ screen[k].kind = "chunk"
          /\ chunks[screen[k].chunk].offset_x # 0
          /\ chunks[screen[k].chunk].y # 0

\* 1 if key is among the held keys, else 0
Held(keys, key) == IF key \in keys THEN 1 ELSE 0

\* C27: the step that reads the held arrow keys moves camera_x by 10 pixels
\* for K_LEFT and by -10 for K_RIGHT, camera_y by 10 for K_UP and by -10 for
\* K_DOWN, each held key counted once and nothing clamped, and leaves zoom,
\* the effective tile size, tile_cache and chunk_cache (entries, order and
\* counters) as they were; in the render step that follows, a key enters
\* chunk_cache only for a chunk that is visible in the panned view.
Thm_C27_PanMovesCameraOnly ==
    [][/\ (pc = "events" /\ pc' = "render") =>
             /\ \E keys \in SUBSET ArrowKeys :
                   /\ Cardinality(keys) = inputs' - inputs
                   /\ camera_x' = camera_x + 10 * UNIT * Held(keys, "K_LEFT")
                                            - 10 * UNIT * Held(keys, "K_RIGHT")
                   /\ camera_y' = camera_y + 10 * UNIT * Held(keys, "K_UP")
                                            - 10 * UNIT * Held(keys, "K_DOWN")
             /\ zoom' = zoom
             /\ current_effective_tile_size' = current_effective_tile_size
             /\ tile_cache' = tile_cache
             /\ chunk_cache' = chunk_cache
       /\ pc = "render" =>
             \A key \in KeySet(chunk_cache') \ KeySet(chunk_cache) :
                 \E ci \in 1..Len(chunks) :
                     Visible(chunks[ci]) /\ ChunkKey(ci) = key]_vars

\* the camera was panned until every chunk lies right of the window: the
\* frame drew no chunk, and the caches still hold what earlier frames stored
Wit_C27_PannedBeyondTheMap ==
    /\ pc = "flip" /\ frames = 3
    /\ camera_x > WIDTH * UNIT
    /\ BlitOrder(screen) = <<>>
    /\ LRULen(chunk_cache) >= 2
    /\ LRULen(tile_cache) >= 2

\* C30: the handling of a zoom key leaves tile_cache as it was (entries,
\* recency order, counters) and leaves the hit and miss counters and the
\* capacity of chunk_cache as they were; no step of the program removes a key
\* from tile_cache, so the scaled tiles of earlier sizes remain.
Thm_C30_ZoomInvalidatesChunkCacheOnly ==
    [][/\ HandlingZoomKey =>
             /\ tile_cache' = tile_cache
             /\ chunk_cache'.hits = chunk_cache.hits
             /\ chunk_cache'.misses = chunk_cache.misses
             /\ chunk_cache'.capacity = chunk_cache.capacity
       /\ KeySet(tile_cache) \subseteq KeySet(tile_cache')]_vars

\* a zoom key that changed the tile size has just been handled in a frame
\* after the first one: chunk_cache is empty with its hits and misses still
\* counted, and tile_cache holds only tiles of the size before
Wit_C30_ZoomedWithTilesOfOldSize ==
    /\ pc = "events" /\ frames >= 2
    /\ ev_i = 2 /\ IsZoomKey(event_list[1])
    /\ LRULen(chunk_cache) = 0
    /\ chunk_cache.hits >= 1 /\ chunk_cache.misses >= 1
    /\ LRULen(tile_cache) >= 2
    /\ \A key \in KeySet(tile_cache) : key[2] # current_effective_tile_size

\* C29: every zoom key event leaves chunk_cache empty, whether or not it
\* changes zoom; a key event leaves zoom unchanged only at a bound (2.0 for a
\* zoom-in key, 0.2 for a zoom-out key), the effective tile size is then
\* unchanged too, and chunk_cache is emptied all the same.
Thm_C29_EveryZoomKeyClearsChunkCache ==
    [][inputs' # inputs =>
          /\ chunk_cache'.cache = <<>>
          /\ zoom' = zoom =>
                /\ zoom \in {1, Len(ZoomTable)}
                /\ current_effective_tile_size' = current_effective_tile_size
                /\ LRULen(chunk_cache') = 0]_vars

\* ten zoom-in keys took zoom to 2.0, a frame was rendered there (the scaled
\* tiles are 32 pixels wide), and an eleventh zoom-in key, which left zoom at
\* 2.0, emptied the chunk cache the frame had filled
Wit_C29_ClearedAtUpperBound ==
    /\ zoom = Len(ZoomTable) /\ inputs = 11 /\ frames = 1
    /\ LRULen(chunk_cache) = 0
    /\ chunk_cache.misses >= 1
    /\ LRULen(tile_cache) >= 1
    /\ \A key \in KeySet(tile_cache) : key[2] = 2 * SCALED_TILE_SIZE

(***************************************************************************)
(* Path search on a grid of tile values: ucs_algorithm (src/main.py) and   *)
(* find_path (src/pathfinding.py).  A cell is a pair of 0-based indices;   *)
(* a grid is a sequence of rows, each a sequence of tile values.           *)
(***************************************************************************)
\* grids searched by ucs_algorithm have at most MaxCells cells
MaxCells == 6
\* grids searched by find_path have at most MaxPositions positions
MaxPositions == 4

\* tile values of a grid: 0 (not walkable), a road tile, a goal tile
TileValues == {0, 1, 2}
\* values searched for: the goal tile, and 0
TargetValues == {0, 2}

\* the rectangular grids of at most n cells: rows x columns
Shapes(n) == {s \in (1..n) \X (1..n) : s[1] * s[2] <= n}
Grids(n) == UNION {[1..s[1] -> [1..s[2] -> TileValues]] : s \in Shapes(n)}
\* [] and [[]]
EmptyGrids == {<<>>, << <<>> >>}

\* Python's grid[i][j] with 0-based indices
At(grid, i, j) == grid[i + 1][j + 1]

\* Python's a < b on tuples of integers of one length
TupleLess(a, b) ==
    \E i \in 1..Len(a) : a[i] < b[i] /\ \A j \in 1..(i - 1) : a[j] = b[j]

\* heapq on a list used only through heappush and heappop: the list is kept
\* as the sorted sequence of its items, so that heappop removes the first.
heappushFront(heap, item) == <<item>> \o heap

heappush(heap, item) ==
    LET k == Cardinality({i \in 1..Len(heap) : ~TupleLess(item, heap[i])})
    IN  SubSeq(heap, 1, k) \o <<item>> \o SubSeq(heap, k + 1, Len(heap))

heappop(heap) == [item |-> Head(heap), heap |-> Tail(heap)]

\* path[::-1] and path.reverse()
Reversed(path) == [i \in 1..Len(path) |-> path[Len(path) + 1 - i]]

(***************************************************************************)
(* ucs_algorithm(graph, start, target), src/main.py:135-198.  The frame of *)
(* the call is the record ucs: its arguments, rows, cols, pq (items        *)
(* <<cost, x, y>>), cost (cell -> <<cost, parent>>), visited, and the      *)
(* value returned once pc = "returned".                                    *)
(***************************************************************************)
ucs_directions == << <<-1, 0>>, <<1, 0>>, <<0, -1>>, <<0, 1>> >>

UcsCalled(graph, start, target) ==
    [pc |-> "call", graph |-> graph, start |-> start, target |-> target,
     rows |-> 0, cols |-> 0, pq |-> <<>>, cost |-> <<>>, visited |-> {},
     ret |-> <<>>]

UcsReturn(f, value) == [f EXCEPT !.pc = "returned", !.ret = value]

\* the nested create_path(x, y): the cells from (x, y) back to start along
\* the parents recorded in cost, reversed
RECURSIVE PathBack(_, _, _)
PathBack(f, x, y) ==
    IF <<x, y>> = f.start THEN <<f.start>>
    ELSE <<<<x, y>>>> \o PathBack(f, f.cost[<<x, y>>][2][1],
                                     f.cost[<<x, y>>][2][2])

create_path(f, x, y) == Reversed(PathBack(f, x, y))

\* the for loop over directions, from the i-th direction on
RECURSIVE UcsExplore(_, _, _, _, _)
UcsExplore(f, current_cost, x, y, i) ==
    IF i > Len(ucs_directions) THEN f
    ELSE LET nx == x + ucs_directions[i][1]
             ny == y + ucs_directions[i][2]
             new_cost == current_cost + 1
         IN  IF /\ 0 <= nx /\ nx < f.rows /\ 0 <= ny /\ ny < f.cols
                /\ At(f.graph, nx, ny) # 0
                /\ <<nx, ny>> \notin f.visited
                /\ \/ <<nx, ny>> \notin DOMAIN f.cost
                   \/ new_cost < f.cost[<<nx, ny>>][1]
             THEN UcsExplore(
                      [f EXCEPT
                          !.cost = (<<nx, ny>> :> <<new_cost, <<x, y>>>>) @@ @,
                          !.pq = heappush(@, <<new_cost, nx, ny>>)],
                      current_cost, x, y, i + 1)
             ELSE UcsExplore(f, current_cost, x, y, i + 1)

\* the two safety checks and the initialisation before the while loop
UcsEntered(f) ==
    IF f.graph = <<>> \/ Len(f.graph[1]) = 0 THEN UcsReturn(f, <<>>)
    ELSE LET rows == Len(f.graph)
             cols == Len(f.graph[1])
         IN  IF \/ f.start[1] < 0 \/ f.start[1] >= rows
                \/ f.start[2] < 0 \/ f.start[2] >= cols
             THEN UcsReturn(f, <<>>)
             ELSE [f EXCEPT !.pc = "loop", !.rows = rows, !.cols = cols,
                            !.pq = << <<0, f.start[1], f.start[2]>> >>,
                            !.cost = (f.start :> <<0, None>>),
                            !.visited = {}]

\* one iteration of "while pq"
UcsIterated(f) ==
    LET popped == heappop(f.pq)
        current_cost == popped.item[1]
        x == popped.item[2]
        y == popped.item[3]
        g == [f EXCEPT !.pq = popped.heap]
    IN  IF At(g.graph, x, y) = g.target THEN UcsReturn(g, create_path(g, x, y))
        ELSE IF <<x, y>> \in g.visited THEN g
        ELSE UcsExplore([g EXCEPT !.visited = @ \cup {<<x, y>>}],
                        current_cost, x, y, 1)

(***************************************************************************)
(* SpecUCS: one call of ucs_algorithm on any grid of at most MaxCells      *)
(* cells over TileValues (or an empty one), from any cell of the grid or   *)
(* from a position just outside it, for any value of TargetValues.         *)
(***************************************************************************)
CellsOf(grid) ==
    IF grid = <<>> THEN {}
    ELSE (0..(Len(grid) - 1)) \X (0..(Len(grid[1]) - 1))

Outside(grid) ==
    IF grid = <<>> THEN {<<0, 0>>}
    ELSE {<<-1, 0>>, <<0, -1>>, <<Len(grid), 0>>, <<0, Len(grid[1])>>}

InitUCS ==
    /\ \E graph \in Grids(MaxCells) \cup EmptyGrids :
           \E start \in CellsOf(graph) \cup Outside(graph) :
               \E target \in TargetValues :
                   ucs = UcsCalled(graph, start, target)
    /\ fp = NoFrame
    /\ expanded = <<>>
    /\ lru = NewLRUCache(1) /\ lastOp = NoOp /\ recency = <<>>
    /\ NoRegistry
    /\ gid_arg = Gid(0, 0) /\ resolved = Returned(NoImage, 0)
    /\ NoProgram

UcsEnter ==
    /\ ucs.pc = "call"
    /\ ucs' = UcsEntered(ucs)
    /\ UNCHANGED <<fp, expanded, lruVars, registryVars, resolveVars, frameVars>>

UcsIterate ==
    /\ ucs.pc = "loop"
    /\ ucs.pq # <<>>
    /\ ucs' = UcsIterated(ucs)
    /\ UNCHANGED <<fp, expanded, lruVars, registryVars, resolveVars, frameVars>>

\* the while loop ends with pq empty: return []
UcsNotFound ==
    /\ ucs.pc = "loop"
    /\ ucs.pq = <<>>
    /\ ucs' = UcsReturn(ucs, <<>>)
    /\ UNCHANGED <<fp, expanded, lruVars, registryVars, resolveVars, frameVars>>

NextUCS == UcsEnter \/ UcsIterate \/ UcsNotFound

SpecUCS == InitUCS /\ [][NextUCS]_vars

(***************************************************************************)
(* Properties of ucs_algorithm, checked under SpecUCS                      *)
(***************************************************************************)
Adjacent(a, b) ==
    \/ a[1] = b[1] /\ (a[2] = b[2] + 1 \/ b[2] = a[2] + 1)
    \/ a[2] = b[2] /\ (a[1] = b[1] + 1 \/ b[1] = a[1] + 1)

\* the four cells next to cell c, on the grid or not
NextTo(c) ==
    {<<c[1] - 1, c[2]>>, <<c[1] + 1, c[2]>>, <<c[1], c[2] - 1>>,
     <<c[1], c[2] + 1>>}

\* the cells of R and the cells one move leads to from a cell of R, a move
\* going from a cell to a 4-adjacent cell of the grid whose value is not 0
OneMoveFrom(grid, R) ==
    R \cup {n \in UNION {NextTo(c) : c \in R} \cap CellsOf(grid) :
               At(grid, n[1], n[2]) # 0}

\* R being the cells at most k moves lead to from start: the least number of
\* moves that leads from start to a cell whose value is target, -1 if no
\* number of moves does
RECURSIVE MovesToTargetFrom(_, _, _, _)
MovesToTargetFrom(grid, R, target, k) ==
    IF \E c \in R : At(grid, c[1], c[2]) = target THEN k
    ELSE IF OneMoveFrom(grid, R) = R THEN -1
    ELSE MovesToTargetFrom(grid, OneMoveFrom(grid, R), target, k + 1)

MovesToTarget(grid, start, target) ==
    MovesToTargetFrom(grid, {start}, target, 0)

TargetCells(grid, target) ==
    {c \in CellsOf(grid) : At(grid, c[1], c[2]) = target}

\* path goes from start to a cell whose value is target by moves to
\* 4-adjacent cells of the grid whose value is not 0
IsUcsPath(path, grid, start, target) ==
    /\ Len(path) >= 1
    /\ path[1] = start
    /\ \A i \in 1..Len(path) : path[i] \in CellsOf(grid)
    /\ At(grid, path[Len(path)][1], path[Len(path)][2]) = target
    /\ \A i \in 2..Len(path) :
           /\ Adjacent(path[i - 1], path[i])
           /\ At(grid, path[i][1], path[i][2]) # 0

\* what a call from a cell of the grid returns when the least number of
\* moves from start to a cell holding target is moves (-1: there is none)
UcsReturned(f, moves) ==
    IF moves = -1 THEN f.ret = <<>>
    ELSE /\ IsUcsPath(f.ret, f.graph, f.start, f.target)
         /\ Len(f.ret) = moves + 1

\* C31: ucs_algorithm returns [] for an empty graph, for a start outside the
\* grid, and when no cell holding target can be reached from start by moves
\* to 4-adjacent non-zero cells; otherwise it returns a path from start to a
\* cell holding target, every step to a 4-adjacent non-zero cell, of the
\* least length any such path to any cell holding target has.
Thm_C31_UcsReturnsShortestPathOrEmpty ==
    ucs.pc = "returned" =>
        IF ucs.graph \in EmptyGrids \/ ucs.start \notin CellsOf(ucs.graph)
        THEN ucs.ret = <<>>
        ELSE UcsReturned(ucs, MovesToTarget(ucs.graph, ucs.start, ucs.target))

\* a call returned a path of four cells on a grid that has a cell of value 0
\* and two cells holding target
Wit_C31_NearestOfTwoTargets ==
    /\ ucs.pc = "returned"
    /\ Len(ucs.ret) = 4
    /\ Cardinality(TargetCells(ucs.graph, ucs.target)) >= 2
    /\ \E c \in CellsOf(ucs.graph) : At(ucs.graph, c[1], c[2]) = 0
    /\ \E i \in 1..Len(ucs.graph), j \in 1..Len(ucs.graph[1]) :
           ucs.graph[i][j] = 0
    /\ Cardinality({c \in CellsOf(ucs.graph) :
                       At(ucs.graph, c[1], c[2]) = ucs.target}) >= 2

(***************************************************************************)
(* find_path(tmx_data, start_pos, target_value), src/pathfinding.py:16-51. *)
(* A position is (x, y) and the road layer is read as data[y][x].  The     *)
(* frame of the call is the record fp: its arguments, width, height, the   *)
(* road layer's data, visited, queue (items <<cost, x, y>>, compared as    *)
(* Python compares (cost, (x, y))), came_from (position -> None or a       *)
(* position), and the value returned once pc = "returned".                 *)
(***************************************************************************)
is_walkable(tile_id) == tile_id # 0

get_neighbors_directions == << <<0, -1>>, <<-1, 0>>, <<1, 0>>, <<0, 1>> >>

get_neighbors(x, y, width, height) ==
    SelectSeq([i \in 1..Len(get_neighbors_directions) |->
                  <<x + get_neighbors_directions[i][1],
                    y + get_neighbors_directions[i][2]>>],
              LAMBDA n : 0 <= n[1] /\ n[1] < width /\ 0 <= n[2] /\ n[2] < height)

\* a pytmx map whose layer "road2" holds data: width columns, height rows
TmxData(data) == [width |-> Len(data[1]), height |-> Len(data), road2 |-> data]

\* road_layer.data[pos[1]][pos[0]]
TileAt(data, pos) == data[pos[2] + 1][pos[1] + 1]

FindPathCalled(tmx_data, start_pos, target_value) ==
    [pc |-> "call", tmx_data |-> tmx_data, start_pos |-> start_pos,
     target_value |-> target_value, data |-> <<>>, width |-> 0, height |-> 0,
     visited |-> {}, queue |-> <<>>, came_from |-> <<>>, ret |-> None]

\* lines 17-24
FindPathEntered(f) ==
    [f EXCEPT !.pc = "loop",
              !.data = f.tmx_data.road2,
              !.width = f.tmx_data.width,
              !.height = f.tmx_data.height,
              !.visited = {},
              !.queue = << <<0, f.start_pos[1], f.start_pos[2]>> >>,
              !.came_from = (f.start_pos :> None)]

\* "Reconstruct path": the positions from current back along came_from until
\* None, reversed
RECURSIVE CameFromBack(_, _)
CameFromBack(came_from, current) ==
    IF current = None THEN <<>>
    ELSE <<current>> \o CameFromBack(came_from, came_from[current])

ReconstructPath(f, current) == Reversed(CameFromBack(f.came_from, current))

\* the for loop over get_neighbors(...), from the i-th neighbour on
RECURSIVE FindPathExplore(_, _, _, _, _)
FindPathExplore(f, cost, current, neighbors, i) ==
    IF i > Len(neighbors) THEN f
    ELSE LET neighbor == neighbors[i]
             new_cost == cost + 1
         IN  IF /\ neighbor \notin f.visited
                /\ \/ is_walkable(TileAt(f.data, neighbor))
                   \/ TileAt(f.data, neighbor) = f.target_value
             THEN FindPathExplore(
                      [f EXCEPT
                          !.queue = heappush(@, <<new_cost, neighbor[1],
                                                  neighbor[2]>>),
                          !.came_from =
                              IF neighbor \in DOMAIN @ THEN @
                              ELSE (neighbor :> current) @@ @],
                      cost, current, neighbors, i + 1)
             ELSE FindPathExplore(f, cost, current, neighbors, i + 1)

AlreadyVisitedIgnored(f, current) == FALSE

\* "if current in visited: continue"
AlreadyVisited(f, current) == current \in f.visited

\* the position of the item heappop returns next
Current(f) == <<Head(f.queue)[2], Head(f.queue)[3]>>

\* the next iteration reaches visited.add(current) and the for loop
Expands(f) ==
    /\ TileAt(f.data, Current(f)) # f.target_value
    /\ ~AlreadyVisited(f, Current(f))

\* one iteration of "while queue"
FindPathIterated(f) ==
    LET popped == heappop(f.queue)
        cost == popped.item[1]
        current == <<popped.item[2], popped.item[3]>>
        g == [f EXCEPT !.queue = popped.heap]
    IN  IF TileAt(g.data, current) = g.target_value
        THEN [g EXCEPT !.pc = "returned", !.ret = ReconstructPath(g, current)]
        ELSE IF AlreadyVisited(g, current) THEN g
        ELSE FindPathExplore(
                 [g EXCEPT !.visited = @ \cup {current}], cost, current,
                 get_neighbors(current[1], current[2], g.width, g.height), 1)

(***************************************************************************)
(* SpecFindPath: one call of find_path on any grid of at most MaxPositions *)
(* positions over TileValues, from any of its positions, for any value of  *)
(* TargetValues.  The call is a sequential loop: it always takes its next  *)
(* step.                                                                   *)
(***************************************************************************)
PositionsOf(data) == (0..(Len(data[1]) - 1)) \X (0..(Len(data) - 1))

InitFindPath ==
    /\ \E data \in Grids(MaxPositions) :
           \E start_pos \in PositionsOf(data) :
               \E target_value \in TargetValues :
                   fp = FindPathCalled(TmxData(data), start_pos, target_value)
    /\ expanded = <<>>
    /\ ucs = NoFrame
    /\ lru = NewLRUCache(1) /\ lastOp = NoOp /\ recency = <<>>
    /\ NoRegistry
    /\ gid_arg = Gid(0, 0) /\ resolved = Returned(NoImage, 0)
    /\ NoProgram

FindPathEnter ==
    /\ fp.pc = "call"
    /\ fp' = FindPathEntered(fp)
    /\ UNCHANGED <<ucs, expanded, lruVars, registryVars, resolveVars, frameVars>>

FindPathIterate ==
    /\ fp.pc = "loop"
    /\ fp.queue # <<>>
    /\ fp' = FindPathIterated(fp)
    /\ expanded' = IF Expands(fp) THEN Append(expanded, Current(fp))
                   ELSE expanded
    /\ UNCHANGED <<ucs, lruVars, registryVars, resolveVars, frameVars>>

\* the while loop ends with queue empty: return None
FindPathNotFound ==
    /\ fp.pc = "loop"
    /\ fp.queue = <<>>
    /\ fp' = [fp EXCEPT !.pc = "returned", !.ret = None]
    /\ UNCHANGED <<ucs, expanded, lruVars, registryVars, resolveVars, frameVars>>

NextFindPath == FindPathEnter \/ FindPathIterate \/ FindPathNotFound

SpecFindPath ==
    InitFindPath /\ [][NextFindPath]_vars /\ WF_vars(NextFindPath)

(***************************************************************************)
(* Properties of find_path, checked under SpecFindPath                     *)
(***************************************************************************)
\* the positions of R and the positions one move leads to from a position
\* of R, a move going to a 4-adjacent position of the grid that is walkable
WalkFrom(data, R) ==
    R \cup {n \in UNION {NextTo(c) : c \in R} \cap PositionsOf(data) :
               TileAt(data, n) # 0}

\* the positions that moves to walkable positions lead to from those of R
RECURSIVE WalkedFrom(_, _)
WalkedFrom(data, R) ==
    IF WalkFrom(data, R) = R THEN R ELSE WalkedFrom(data, WalkFrom(data, R))

\* some position holding target_value is start_pos itself or 4-adjacent to
\* a position that moves through walkable positions lead to from start_pos
TargetReachable(data, start_pos, target_value) ==
    \E t \in PositionsOf(data) :
        /\ TileAt(data, t) = target_value
        /\ \/ t = start_pos
           \/ \E c \in WalkedFrom(data, {start_pos}) : Adjacent(c, t)

IsFoundPath(path, data, start_pos, target_value) ==
    /\ Len(path) >= 1
    /\ path[1] = start_pos
    /\ TileAt(data, path[Len(path)]) = target_value
    /\ \A i \in 1..Len(path) : path[i] \in PositionsOf(data)
    /\ \A i \in 2..Len(path) : Adjacent(path[i - 1], path[i])

\* what is left to do: four pushes for every position not yet expanded, and
\* the items waiting in the queue
WorkLeft(f) ==
    4 * (Cardinality(PositionsOf(f.data)) - Cardinality(f.visited))
        + Len(f.queue)

FindPathReturnsRight ==
    fp.pc = "returned" =>
        IF TargetReachable(fp.data, fp.start_pos, fp.target_value)
        THEN IsFoundPath(fp.ret, fp.data, fp.start_pos, fp.target_value)
        ELSE fp.ret = None

ExpandedOnce ==
    \A i, j \in 1..Len(expanded) : i # j => expanded[i] # expanded[j]

\* C32: find_path, called from a position of a finite grid, terminates; it
\* returns None when no position holding target_value can be reached from
\* start_pos by 4-adjacent moves through in-bounds walkable positions, and
\* otherwise a path from start_pos to a position holding target_value whose
\* consecutive positions are 4-adjacent and in bounds; no position is
\* expanded twice, and every iteration of the loop reduces the work left.
Thm_C32_FindPathTerminatesWithPathOrNone ==
    /\ []FindPathReturnsRight
    /\ []ExpandedOnce
    /\ [][fp.pc = "loop" /\ fp'.pc = "loop" =>
              WorkLeft(fp') < WorkLeft(fp) /\ WorkLeft(fp') >= 0]_vars
    /\ <>(fp.pc = "returned")

\* a call returned a path of three positions after expanding three, the
\* position found having been pushed twice: its second item is still queued
Wit_C32_PathToPositionPushedTwice ==
    /\ fp.pc = "returned"
    /\ Len(fp.ret) = 3
    /\ Len(expanded) = 3
    /\ \E i \in 1..Len(fp.queue) :
           <<fp.queue[i][2], fp.queue[i][3]>> = fp.ret[3]

\* C8: for a cell whose low 29 bits are 0, whatever its flags, compositing
\* blits nothing, resolves no tile and inserts nothing into the tile cache.
Cex_C8_ReferenceZeroNeverDrawn ==
    pc = "flip" =>
        \A i \in 1..Len(calls) :
            calls[i].fn \in {"chunk_surface.blit", "get_tile_image",
                             "tile_cache.put"} =>
                calls[i].gid.lo # 0

====
